---------------------------- MODULE Spec2Model ----------------------------
(***************************************************************************)
(* A model of the price-matching and history-reconciliation core of the    *)
(* CS2 market tracker: the market-name resolver (getSkinPrice), the        *)
(* chart's tiered history load (loadPriceHistory, in both chart            *)
(* components) and the synthetic-history generator with its 24 hour cache  *)
(* (generateSimulatedHistory).                                             *)
(*                                                                         *)
(* JavaScript strings are sequences of tokens: a token is a word or a      *)
(* punctuation mark of the market names ("Star" is the U+2605 marker,      *)
(* "Sp" one blank, "Bar" the "|" separator, "LP" and "RP" the round        *)
(* brackets, "StatTrak" the marker "StatTrak(TM)").  startsWith, includes, *)
(* split, trim and replace are computed on these sequences.                *)
(* A nullable value is <<>> (null/undefined) or <<v>>.  Dollar amounts are *)
(* integers counting thousandths of a dollar.                              *)
(* Times are integers counting hours.                                      *)
(***************************************************************************)
EXTENDS Integers, Sequences, FiniteSets, TLC

\* ------------------------------------------------------------------ bounds

\* Longest price listing the feed returns.
MaxKeys == 2

\* ------------------------------------------------------- nullable values

Null == <<>>

Some(v) == <<v>>

IsNull(x) == x = <<>>

Get(x) == x[1]

\* ----------------------------------------------------------------- strings

EmptyStr == <<>>

\* JavaScript truthiness of a string argument: null, undefined and "" are falsy.
Truthy(s) == s # <<>>

\* String.prototype.startsWith
StartsWith(s, p) ==
    /\ Len(p) <= Len(s)
    /\ \A i \in 1..Len(p) : s[i] = p[i]

\* String.prototype.includes
Includes(s, p) ==
    \E k \in 0..(Len(s) - Len(p)) : \A i \in 1..Len(p) : s[k + i] = p[i]

\* Index of the first occurrence of token t in s at or after position from,
\* Len(s) + 1 when there is none.
RECURSIVE IndexFrom(_, _, _)
IndexFrom(s, t, from) ==
    IF from > Len(s) THEN Len(s) + 1
    ELSE IF s[from] = t THEN from
    ELSE IndexFrom(s, t, from + 1)

\* s.split("|")[0]
SplitBar0(s) == SubSeq(s, 1, IndexFrom(s, "Bar", 1) - 1)

\* s.split("|")[1], for an s that includes "|"
SplitBar1(s) ==
    LET b1 == IndexFrom(s, "Bar", 1)
        b2 == IndexFrom(s, "Bar", b1 + 1)
    IN  SubSeq(s, b1 + 1, b2 - 1)

\* String.prototype.trim
RECURSIVE Trim(_)
Trim(s) ==
    IF s = <<>> THEN s
    ELSE IF Head(s) = "Sp" THEN Trim(Tail(s))
    ELSE IF s[Len(s)] = "Sp" THEN Trim(SubSeq(s, 1, Len(s) - 1))
    ELSE s

\* The template `(${wear})`
Paren(wear) == <<"LP">> \o wear \o <<"RP">>

StatTrakMark == <<"StatTrak">>

StarMark == <<"Star">>

FieldTested == <<"Field-Tested">>

MinimalWear == <<"Minimal Wear">>

FactoryNew == <<"Factory New">>

WellWorn == <<"Well-Worn">>

BattleScarred == <<"Battle-Scarred">>

NoWear == EmptyStr


\* ------------------------------------------------- price feed and price map

\* The five wear conditions, in the order getSkinPrice retries them.
commonWears == <<FieldTested, MinimalWear, FactoryNew, WellWorn, BattleScarred>>

Sp == <<"Sp">>

StarBayonet == StarMark \o Sp \o <<"Bayonet">>

BarSep == Sp \o <<"Bar">> \o Sp

StarBayonetDoppler == StarBayonet \o BarSep \o <<"Doppler">>

\* A StatTrak knife as the market names it: the marker follows the star.
StarStatTrakBayonetDoppler ==
    StarMark \o Sp \o StatTrakMark \o Sp \o <<"Bayonet">> \o BarSep
        \o <<"Doppler">>

AkCaseHardened == <<"AK-47">> \o BarSep \o <<"Case Hardened">>

Phase2 == Sp \o Paren(<<"Phase 2">>)

WearSuffix(w) == Sp \o Paren(w)

StatTrakPrefix == StatTrakMark \o Sp

SouvenirPrefix == <<"Souvenir">> \o Sp

\* The market_hash_name values the price feed is drawn from: ordinary skins,
\* special (star) items with a pattern, with a phase, with the StatTrak marker
\* in front of or after the star, and vanilla special items.
FeedNames ==
    << AkCaseHardened,
       AkCaseHardened \o WearSuffix(FieldTested),
       AkCaseHardened \o WearSuffix(MinimalWear),
       StatTrakPrefix \o AkCaseHardened \o WearSuffix(FieldTested),
       SouvenirPrefix \o AkCaseHardened \o WearSuffix(FieldTested),
       StarBayonetDoppler,
       StarBayonetDoppler \o WearSuffix(MinimalWear),
       StarBayonetDoppler \o WearSuffix(FactoryNew),
       StarBayonetDoppler \o Phase2,
       StarBayonetDoppler \o Phase2 \o WearSuffix(FieldTested),
       StarBayonetDoppler \o Phase2 \o WearSuffix(FactoryNew),
       StatTrakPrefix \o StarBayonetDoppler \o WearSuffix(FactoryNew),
       StarStatTrakBayonetDoppler \o WearSuffix(FactoryNew),
       SouvenirPrefix \o StarBayonetDoppler,
       StarBayonet,
       StarBayonet \o Sp \o <<"Classic">> >>

\* One record of the price-listing feed: min_price in integer cents.  The
\* first name is listed at 0 cents.
FeedItem(i) ==
    [market_hash_name |-> FeedNames[i], min_price |-> (i - 1) * 250, qty |-> i]

\* The feed's responses: every list of at most MaxKeys records with distinct
\* names.
Listings ==
    LET N == Len(FeedNames)
        Idx == UNION {[1..n -> 1..N] : n \in 0..MaxKeys}
    IN  {[k \in 1..Len(ix) |-> FeedItem(ix[k])] :
            ix \in {jx \in Idx : \A a, b \in 1..Len(jx) : a # b => jx[a] # jx[b]}}

\* item.min_price / 100, in thousandths of a dollar.
CentsToDollars(cents) == cents * 10

\* Position of key in the price map, 0 when it is no own property.
RECURSIVE KeyIndex(_, _, _)
KeyIndex(map, key, i) ==
    IF i > Len(map) THEN 0
    ELSE IF map[i].key = key THEN i
    ELSE KeyIndex(map, key, i + 1)

\* priceMap[item.market_hash_name] = {...}: a new key is appended in insertion
\* order, a repeated key keeps its place and takes the new value.
SetProperty(map, key, info) ==
    LET i == KeyIndex(map, key, 1)
    IN  IF i = 0 THEN Append(map, [key |-> key, info |-> info])
        ELSE [map EXCEPT ![i].info = info]

\* The conversion of fetchPriceData: the feed's array to an object keyed by
\* market_hash_name.
RECURSIVE BuildPriceMap(_, _)
BuildPriceMap(dataArray, map) ==
    IF dataArray = <<>> THEN map
    ELSE LET item == Head(dataArray)
             d == CentsToDollars(item.min_price)
         IN  BuildPriceMap(Tail(dataArray),
                 SetProperty(map, item.market_hash_name,
                     [price |-> d, min |-> d, avg |-> d, max |-> d,
                      qty |-> item.qty]))

\* fetchPriceData on a successful response: the price map, never null.
fetchPriceData(dataArray) == Some(BuildPriceMap(dataArray, <<>>))

\* priceData[name]: the stored quote, or undefined.
Property(map, key) ==
    LET i == KeyIndex(map, key, 1)
    IN  IF i = 0 THEN Null ELSE Some(map[i].info)

\* Object.keys(priceData), in insertion order.
ObjectKeys(map) == [i \in 1..Len(map) |-> map[i].key]

\* ------------------------------------------------------------ getSkinPrice

\* The || of two numbers.
OrElse(a, b) == IF a # 0 THEN a ELSE b

\* MarketHashName with the two flags tested in the other order.
MarketHashName_SouvenirFirst(skinName, wear, stattrak, souvenir) ==
    LET flagged == IF souvenir THEN SouvenirPrefix \o skinName
                   ELSE IF stattrak THEN StatTrakPrefix \o skinName
                   ELSE skinName
    IN  IF Truthy(wear) THEN flagged \o WearSuffix(wear) ELSE flagged

\* The canonical identifier: the StatTrak prefix wins over the Souvenir
\* prefix, the wear is appended when given.
MarketHashName(skinName, wear, stattrak, souvenir) ==
    LET flagged == IF stattrak THEN StatTrakPrefix \o skinName
                   ELSE IF souvenir THEN SouvenirPrefix \o skinName
                   ELSE skinName
    IN  IF Truthy(wear) THEN flagged \o WearSuffix(wear) ELSE flagged

\* The object getSkinPrice returns for the quote stored under name.
Quote(info, name, approximate) ==
    [avg |-> OrElse(info.avg, OrElse(info.price, 0)),
     min |-> OrElse(info.min, OrElse(info.price, 0)),
     max |-> OrElse(info.max, OrElse(info.price, 0)),
     currency |-> "USD",
     marketHashName |-> name,
     isApproximate |-> approximate]

\* The predicate without the test for the wear.
FallbackMatch_AnyWear(key, prefix, vanilla, wear, wantStatTrak) ==
    /\ StartsWith(key, prefix)
    /\ vanilla => ~Includes(key, <<"Bar">>)
    /\ Includes(key, StatTrakMark) <=> wantStatTrak

\* The predicate of the fallback's allKeys.find calls: the prefix, no "|" for
\* a vanilla item, "(wear)" when a wear is given, and the StatTrak marker
\* present or absent as asked.
FallbackMatch(key, prefix, vanilla, wear, wantStatTrak) ==
    /\ StartsWith(key, prefix)
    /\ vanilla => ~Includes(key, <<"Bar">>)
    /\ Truthy(wear) => Includes(key, Paren(wear))
    /\ Includes(key, StatTrakMark) <=> wantStatTrak

\* Array.prototype.find over the keys: the first match in insertion order,
\* undefined when there is none.
RECURSIVE FindKey(_, _, _, _, _, _)
FindKey(keys, i, prefix, vanilla, wear, wantStatTrak) ==
    IF i > Len(keys) THEN Null
    ELSE IF FallbackMatch(keys[i], prefix, vanilla, wear, wantStatTrak)
         THEN Some(keys[i])
    ELSE FindKey(keys, i + 1, prefix, vanilla, wear, wantStatTrak)

\* skinName.split("|")[0].trim()
BaseWeapon(skinName) == Trim(SplitBar0(skinName))

\* The pattern after the first "|", "" when the name has none.
Pattern(skinName) ==
    IF Includes(skinName, <<"Bar">>) THEN Trim(SplitBar1(skinName)) ELSE EmptyStr

\* Whether the fallback searches by "<base> | <pattern>" (hasPattern && pattern).
Patterned(skinName) == Includes(skinName, <<"Bar">>) /\ Truthy(Pattern(skinName))

\* FallbackPrefix joining base and pattern by "|" without the blanks.
FallbackPrefix_NoBlanks(skinName) ==
    IF Patterned(skinName)
    THEN BaseWeapon(skinName) \o <<"Bar">> \o Pattern(skinName)
    ELSE BaseWeapon(skinName)

\* The prefix the fallback searches for.
FallbackPrefix(skinName) ==
    IF Patterned(skinName)
    THEN BaseWeapon(skinName) \o BarSep \o Pattern(skinName)
    ELSE BaseWeapon(skinName)

\* STRATEGY 1: same prefix, same wear, same StatTrak status.
Strategy1(map, skinName, wear, stattrak) ==
    FindKey(ObjectKeys(map), 1, FallbackPrefix(skinName),
            ~Patterned(skinName), wear, stattrak)

\* Strategy2 without the retry.
Strategy2_NoRelax(map, skinName, wear, stattrak, found) == found

\* STRATEGY 2: for a StatTrak request that found nothing, the same search
\* among the keys without the StatTrak marker.
Strategy2(map, skinName, wear, stattrak, found) ==
    IF IsNull(found) /\ stattrak
    THEN FindKey(ObjectKeys(map), 1, FallbackPrefix(skinName),
                 ~Patterned(skinName), wear, FALSE)
    ELSE found

\* Fallback returning its match without the approximate flag.
Fallback_TaggedExact(map, skinName, wear, stattrak) ==
    LET fallbackKey ==
            Strategy2(map, skinName, wear, stattrak,
                      Strategy1(map, skinName, wear, stattrak))
    IN  IF IsNull(fallbackKey) THEN Null
        ELSE Some(Quote(Get(Property(map, Get(fallbackKey))),
                        Get(fallbackKey), FALSE))

\* The fallback for special items: the matched key's quote, flagged
\* approximate, or null.
Fallback(map, skinName, wear, stattrak) ==
    LET fallbackKey ==
            Strategy2(map, skinName, wear, stattrak,
                      Strategy1(map, skinName, wear, stattrak))
    IN  IF IsNull(fallbackKey) THEN Null
        ELSE Some(Quote(Get(Property(map, Get(fallbackKey))),
                        Get(fallbackKey), TRUE))

\* IsSpecial without the test for the star.
IsSpecial_Always(skinName) == TRUE

\* IsSpecial testing for a pattern in place of the star.
IsSpecial_Patterned(skinName) == Includes(skinName, <<"Bar">>)

\* Whether the fallback applies to the name: skinName.includes(star).
IsSpecial(skinName) == Includes(skinName, StarMark)

RECURSIVE getSkinPrice(_, _, _, _, _)
RECURSIVE TryWears(_, _, _, _, _)

\* The loop over commonWears, from position i: the first non-null result of
\* the recursive call with that wear.
TryWears(priceData, skinName, stattrak, souvenir, i) ==
    IF i > Len(commonWears) THEN Null
    ELSE LET r == getSkinPrice(priceData, skinName, commonWears[i],
                               stattrak, souvenir)
         IN  IF ~IsNull(r) THEN r
             ELSE TryWears(priceData, skinName, stattrak, souvenir, i + 1)

getSkinPrice(priceData, skinName, wear, stattrak, souvenir) ==
    IF IsNull(priceData) \/ ~Truthy(skinName) THEN Null
    ELSE
    LET map == Get(priceData)
        marketHashName == MarketHashName(skinName, wear, stattrak, souvenir)
        priceInfo == Property(map, marketHashName)
    IN  IF ~IsNull(priceInfo)
        THEN Some(Quote(Get(priceInfo), marketHashName, FALSE))
        ELSE
        LET retried == IF ~Truthy(wear)
                       THEN TryWears(priceData, skinName, stattrak, souvenir, 1)
                       ELSE Null
        IN  IF ~IsNull(retried) THEN retried
            ELSE IF IsSpecial(skinName)
                 THEN Fallback(map, skinName, wear, stattrak)
            ELSE Null


\* ------------------------------------------------------- time and history

\* Times count hours: 24 * 60 * 60 * 1000 milliseconds are one day.
Day == 24

\* new Date(timestamp)
DateOf(timestamp) == [repr |-> "Date", time |-> timestamp]

\* What JSON.stringify followed by JSON.parse leaves of a Date: its ISO string.
JsonDate(date) == [repr |-> "string", time |-> date.time]

\* The JSON round trip of a series of points.
JsonHistory(history) ==
    [i \in 1..Len(history) |->
        [history[i] EXCEPT !.date = JsonDate(history[i].date)]]

\* Array.prototype.filter with the test keep(_).
Filter(seq, keep(_)) == SelectSeq(seq, keep)

Max(a, b) == IF a >= b THEN a ELSE b

Min(a, b) == IF a <= b THEN a ELSE b

\* What Math.random() is taken to return, in thousandths: the least value and
\* one just below 1.  One generation uses the same draw for all its points.
RandomDraws == {0, 999}

\* getPriceHistory: the parsed snapshot log, [] when the key is not stored or
\* the read throws.
getPriceHistory(stored, readThrows) ==
    IF readThrows \/ IsNull(stored) THEN <<>> ELSE Get(stored)

\* A price that is never below one cent.
SnapshotPrice_AtLeastACent(snapshot, marketHashName) ==
    LET priceInfo == Property(snapshot.prices, marketHashName)
    IN  IF IsNull(priceInfo) THEN 10
        ELSE Max(OrElse(Get(priceInfo).price, Get(priceInfo).avg), 10)

\* priceInfo?.price || priceInfo?.avg || 0 of snapshot.prices?.[name]
SnapshotPrice(snapshot, marketHashName) ==
    LET priceInfo == Property(snapshot.prices, marketHashName)
    IN  IF IsNull(priceInfo) THEN 0
        ELSE OrElse(Get(priceInfo).price, OrElse(Get(priceInfo).avg, 0))

\* getSkinPriceHistory: one point per snapshot, those with price > 0 kept.
getSkinPriceHistory(stored, readThrows, marketHashName) ==
    LET history == getPriceHistory(stored, readThrows)
        points == [i \in 1..Len(history) |->
                      [date |-> DateOf(history[i].timestamp),
                       timestamp |-> history[i].timestamp,
                       price |-> SnapshotPrice(history[i], marketHashName)]]
        Positive(item) == item.price > 0
    IN  Filter(points, Positive)

\* ----------------------------------------------------- the chart's history

\* WEAR_CONDITIONS of the chart.
WEAR_CONDITIONS ==
    << [key |-> "FN", label |-> FactoryNew, suffix |-> Paren(FactoryNew)],
       [key |-> "MW", label |-> MinimalWear, suffix |-> Paren(MinimalWear)],
       [key |-> "FT", label |-> FieldTested, suffix |-> Paren(FieldTested)],
       [key |-> "WW", label |-> WellWorn, suffix |-> Paren(WellWorn)],
       [key |-> "BS", label |-> BattleScarred, suffix |-> Paren(BattleScarred)] >>

\* Position of the first occurrence of pat in s at or after from, 0 when none.
RECURSIVE Search(_, _, _)
Search(s, pat, from) ==
    IF from + Len(pat) - 1 > Len(s) THEN 0
    ELSE IF SubSeq(s, from, from + Len(pat) - 1) = pat THEN from
    ELSE Search(s, pat, from + 1)

\* String.prototype.replace with a string pattern: the first occurrence only.
Replace(s, pat, rep) ==
    LET at == Search(s, pat, 1)
    IN  IF at = 0 THEN s
        ELSE SubSeq(s, 1, at - 1) \o rep \o SubSeq(s, at + Len(pat), Len(s))

\* The forEach that removes a wear suffix from the query name, from position i
\* of WEAR_CONDITIONS.
RECURSIVE RemoveWears(_, _)
RemoveWears(queryName, i) ==
    IF i > Len(WEAR_CONDITIONS) THEN queryName
    ELSE RemoveWears(Replace(queryName, Sp \o WEAR_CONDITIONS[i].suffix, <<>>),
                     i + 1)

\* WEAR_CONDITIONS.find((w) => w.key === selectedWear)?.suffix
SuffixOfKey(key) ==
    LET hits == {i \in 1..Len(WEAR_CONDITIONS) : WEAR_CONDITIONS[i].key = key}
    IN  IF hits = {} THEN Null
        ELSE Some(WEAR_CONDITIONS[CHOOSE i \in hits : \A j \in hits : i <= j].suffix)

\* The identifier the chart asks its tiers for: the StatTrak prefix added or
\* removed after the toggle, the wear suffix replaced by the selected one.
\* selectedWear is a nullable key.
QueryName(marketHashName, selectedWear, isStatTrak) ==
    LET st == IF isStatTrak /\ ~Includes(marketHashName, StatTrakMark)
              THEN StatTrakPrefix \o marketHashName
              ELSE IF ~isStatTrak /\ Includes(marketHashName, StatTrakMark)
              THEN Replace(marketHashName, StatTrakPrefix, <<>>)
              ELSE marketHashName
    IN  IF IsNull(selectedWear) THEN st
        ELSE LET bare == RemoveWears(st, 1)
                 wearSuffix == SuffixOfKey(Get(selectedWear))
             IN  IF ~IsNull(wearSuffix) /\ ~Includes(bare, Get(wearSuffix))
                 THEN bare \o Sp \o Get(wearSuffix)
                 ELSE bare

\* parseInt(period) of "7d", "14d", "30d".
PeriodDays(period) ==
    CASE period = "7d" -> 7 [] period = "14d" -> 14 [] period = "30d" -> 30

\* periodMs[period]
PeriodMs(period) == PeriodDays(period) * Day

Periods == {"7d", "14d", "30d"}

\* history.filter((item) => now - item.timestamp <= periodMs[period])
FilterByPeriod(history, now, period) ==
    LET InPeriod(item) == now - item.timestamp <= PeriodMs(period)
    IN  Filter(history, InPeriod)

\* The zoom factor of the chart width, in tenths.
ZoomFactor(dataPoints) ==
    IF dataPoints > 50 THEN 35
    ELSE IF dataPoints > 30 THEN 28
    ELSE IF dataPoints > 15 THEN 22
    ELSE IF dataPoints > 7 THEN 15
    ELSE 10

\* Math.max(currentPrice || 1, 0.01)
SafePrice(currentPrice) == Max(OrElse(currentPrice, 1000), 10)

\* Tier 3 of the chart: up to 7 points spread over the period, each the base
\* price varied by 0.95 + random * 0.1 and never below 0.01.  The timestamps
\* are rounded down to the hour.
SyntheticPoints(currentPrice, period, now, draw) ==
    LET basePrice == SafePrice(currentPrice)
        points == Min(PeriodDays(period), 7)
    IN  [k \in 1..points |->
            LET timestamp == now - (PeriodMs(period) * (points - k)) \div points
            IN  [date |-> DateOf(timestamp),
                 timestamp |-> timestamp,
                 price |-> Max((basePrice * (9500 + draw)) \div 10000, 10)]]

\* What the remote store answers to a query: it throws, or it returns null,
\* no point, two points of the last days or two points older than 30 days.
RemoteOutcomes(now) ==
    { [throws |-> TRUE, value |-> Null],
      [throws |-> FALSE, value |-> Null],
      [throws |-> FALSE, value |-> Some(<<>>)],
      [throws |-> FALSE,
       value |-> Some(<< [timestamp |-> now - 2 * Day, price |-> 4000],
                         [timestamp |-> now - Day, price |-> 4400] >>)],
      [throws |-> FALSE,
       value |-> Some(<< [timestamp |-> now - 41 * Day, price |-> 3000],
                         [timestamp |-> now - 40 * Day, price |-> 3100] >>)] }

\* supabaseHistory && supabaseHistory.length > 0
HasPoints(value) == ~IsNull(value) /\ Len(Get(value)) > 0

\* ------------------------------------------------ the synthetic generator

\* price.toFixed(2), parsed back: rounded to the cent.
ToFixed2(price) == ((price + 5) \div 10) * 10

\* The loop of generateSimulatedHistory from day i down to 0: the base price
\* walks by the daily change 0.95 + random * 0.1 and is blended towards the
\* current price by up to 30 %.
RECURSIVE Walk(_, _, _, _, _, _)
Walk(i, basePrice, currentPrice, daysBack, now, draw) ==
    IF i < 0 THEN <<>>
    ELSE LET timestamp == now - i * Day
             walked == (basePrice * (9500 + draw)) \div 10000
             price == (walked * (10 * daysBack - 3 * (daysBack - i))
                       + currentPrice * 3 * (daysBack - i))
                          \div (10 * daysBack)
         IN  << [date |-> DateOf(timestamp),
                 timestamp |-> timestamp,
                 price |-> ToFixed2(price)] >>
             \o Walk(i - 1, walked, currentPrice, daysBack, now, draw)

\* The series generateSimulatedHistory builds at time now: daysBack + 1 daily
\* points, the first base price within 15 % of the current price.
SimulatedHistory(currentPrice, daysBack, now, draw) ==
    Walk(daysBack, (currentPrice * (8500 + 3 * draw)) \div 10000,
         currentPrice, daysBack, now, draw)

\* Whether the cached entry is returned: it exists and is less than a day old.
CacheFresh(existingData, now) ==
    /\ ~IsNull(existingData)
    /\ now - Get(existingData).generatedAt < Day

\* ------------------------------------------------------- the price change

\* percentage as the exact fraction num / den of (change / oldest) * 100, and
\* 0 / 1 when oldest is not positive.
Percentage(oldest, change) ==
    IF oldest > 0 THEN [num |-> change * 100, den |-> oldest]
    ELSE [num |-> 0, den |-> 1]

\* trend: "up" above 5, "down" below -5.
Trend_Inclusive(percentage) ==
    IF percentage.num >= 5 * percentage.den THEN "up"
    ELSE IF percentage.num <= (-5) * percentage.den THEN "down"
    ELSE "stable"

Trend(percentage) ==
    IF percentage.num > 5 * percentage.den THEN "up"
    ELSE IF percentage.num < (-5) * percentage.den THEN "down"
    ELSE "stable"

\* calculatePriceChange(priceHistory); priceHistory is nullable.
calculatePriceChange(priceHistory) ==
    IF IsNull(priceHistory) \/ Len(Get(priceHistory)) < 2
    THEN [change |-> 0, percentage |-> [num |-> 0, den |-> 1],
          trend |-> "stable"]
    ELSE LET history == Get(priceHistory)
             oldest == history[1].price
             newest == history[Len(history)].price
             change == newest - oldest
             percentage == Percentage(oldest, change)
         IN  [change |-> change, percentage |-> percentage,
              trend |-> Trend(percentage)]

\* ------------------------------------------------------ the price format

\* The strings formatPrice builds: the form, and the number printed in it,
\* cents for "$d.dd", dollars for "$d", tenths of a thousand for "$d.dk".
Text(form, number) == [form |-> form, number |-> number]

\* Math.round(price), in dollars.
MathRound(price) == (price + 500) \div 1000

\* (price / 1000).toFixed(1), in tenths of a thousand dollars.
ToFixed1OfThousands(price) == (price + 50000) \div 100000

\* formatPrice(price); price is nullable, in thousandths of a dollar.
formatPrice(price) ==
    IF IsNull(price) THEN Text("N/A", 0)
    ELSE LET p == Get(price)
         IN  IF p = 0 THEN Text("Free", 0)
             ELSE IF p < 10 THEN Text("<$0.01", 0)
             ELSE IF p < 1000 THEN Text("$d.dd", ToFixed2(p) \div 10)
             ELSE IF p < 100000 THEN Text("$d.dd", ToFixed2(p) \div 10)
             ELSE IF p < 1000000 THEN Text("$d", MathRound(p))
             ELSE Text("$d.dk", ToFixed1OfThousands(p))

\* ------------------------------------------------- the category classifier

\* Weapon and display names are sequences of fragments, letters kept in their
\* case: every keyword of the classifier is a whole number of fragments, so
\* that "gloves" is "glove" followed by "s" and "ump-45" is "ump" followed by
\* "-45".  Blank is one space.
Blank == " "

\* String.toLowerCase on one fragment.
LowerFragment(t) ==
    CASE t = "Knife" -> "knife"  [] t = "KNIFE" -> "knife"
      [] t = "Bayonet" -> "bayonet"  [] t = "Karambit" -> "karambit"
      [] t = "AK-47" -> "ak-47"  [] t = "AUG" -> "aug"  [] t = "AWP" -> "awp"
      [] t = "SG" -> "sg"  [] t = "SSG" -> "ssg"  [] t = "Glock" -> "glock"
      [] t = "Desert" -> "desert"  [] t = "Eagle" -> "eagle"
      [] t = "Deagle" -> "deagle"  [] t = "MP9" -> "mp9"  [] t = "UMP" -> "ump"
      [] t = "Nova" -> "nova"  [] t = "Negev" -> "negev"
      [] t = "Glove" -> "glove"  [] t = "Hand" -> "hand"
      [] t = "Wraps" -> "wraps"  [] t = "Sport" -> "sport"
      [] t = "Safari" -> "safari"  [] t = "Mesh" -> "mesh"
      [] OTHER -> t

\* weaponName.toLowerCase()
ToLowerCase(name) == [i \in 1..Len(name) |-> LowerFragment(name[i])]

\* name.includes(k) for some keyword k of the list.
IncludesAny(name, keywords) == \E k \in keywords : Includes(name, k)

KnifeKeywords == {<<"knife">>, <<"bayonet">>, <<"karambit">>}

RifleKeywords ==
    {<<"ak-47">>, <<"m4a4">>, <<"m4a1">>, <<"aug">>, <<"sg", Blank, "553">>,
     <<"famas">>, <<"galil">>, <<"awp">>, <<"ssg", Blank, "08">>,
     <<"scar-20">>, <<"g3sg1">>}

PistolKeywords ==
    {<<"glock">>, <<"usp">>, <<"p2000">>, <<"p250">>, <<"five-seven">>,
     <<"tec-9">>, <<"cz75">>, <<"desert", Blank, "eagle">>,
     <<"dual", Blank, "berettas">>, <<"r8", Blank, "revolver">>}

SmgKeywords ==
    {<<"mac-10">>, <<"mp9">>, <<"mp7">>, <<"mp5">>, <<"ump", "-45">>,
     <<"p90">>, <<"pp-bizon">>}

ShotgunKeywords == {<<"nova">>, <<"xm1014">>, <<"mag-7">>, <<"sawed-off">>}

MachineGunKeywords == {<<"m249">>, <<"negev">>}

GlovesKeywords ==
    {<<"glove", "s">>, <<"glove">>, <<"wraps">>, <<"hand", Blank, "wraps">>,
     <<"hand", "wraps">>}

\* determineCategory with the rifle test ahead of the knife test.
determineCategory_RifleFirst(weaponName) ==
    LET name == ToLowerCase(weaponName)
    IN  IF IncludesAny(name, RifleKeywords) THEN "Rifle"
        ELSE IF IncludesAny(name, KnifeKeywords) THEN "Knife"
        ELSE IF IncludesAny(name, PistolKeywords) THEN "Pistol"
        ELSE IF IncludesAny(name, SmgKeywords) THEN "SMG"
        ELSE IF IncludesAny(name, ShotgunKeywords) THEN "Shotgun"
        ELSE IF IncludesAny(name, MachineGunKeywords) THEN "Machine Gun"
        ELSE IF IncludesAny(name, GlovesKeywords) THEN "Gloves"
        ELSE "Other"

\* determineCategory with the gloves test ahead of the shotgun test.
determineCategory_GlovesEarly(weaponName) ==
    LET name == ToLowerCase(weaponName)
    IN  IF IncludesAny(name, KnifeKeywords) THEN "Knife"
        ELSE IF IncludesAny(name, RifleKeywords) THEN "Rifle"
        ELSE IF IncludesAny(name, PistolKeywords) THEN "Pistol"
        ELSE IF IncludesAny(name, SmgKeywords) THEN "SMG"
        ELSE IF IncludesAny(name, GlovesKeywords) THEN "Gloves"
        ELSE IF IncludesAny(name, ShotgunKeywords) THEN "Shotgun"
        ELSE IF IncludesAny(name, MachineGunKeywords) THEN "Machine Gun"
        ELSE "Other"

determineCategory(weaponName) ==
    LET name == ToLowerCase(weaponName)
    IN  IF IncludesAny(name, KnifeKeywords) THEN "Knife"
        ELSE IF IncludesAny(name, RifleKeywords) THEN "Rifle"
        ELSE IF IncludesAny(name, PistolKeywords) THEN "Pistol"
        ELSE IF IncludesAny(name, SmgKeywords) THEN "SMG"
        ELSE IF IncludesAny(name, ShotgunKeywords) THEN "Shotgun"
        ELSE IF IncludesAny(name, MachineGunKeywords) THEN "Machine Gun"
        ELSE IF IncludesAny(name, GlovesKeywords) THEN "Gloves"
        ELSE "Other"

\* ------------------------------------------------------ the category filter

KnifeFilter == {StarMark, <<"knife">>}

GlovesFilter == {<<"glove", "s">>, <<"wraps">>}

RifleFilter ==
    {<<"ak-47">>, <<"m4a4">>, <<"m4a1">>, <<"awp">>, <<"aug">>,
     <<"sg", Blank, "553">>, <<"famas">>, <<"galil">>}

PistolFilter ==
    {<<"glock">>, <<"usp">>, <<"p2000">>, <<"p250">>,
     <<"desert", Blank, "eagle">>, <<"deagle">>}

SmgFilter == {<<"mp9">>, <<"mac-10">>, <<"p90">>, <<"ump">>}

\* The callback of the filter of filterByCategory.
PassesFilter(item, category) ==
    LET name == ToLowerCase(item.name)
    IN  CASE category = "Knife" -> IncludesAny(name, KnifeFilter)
          [] category = "Gloves" -> IncludesAny(name, GlovesFilter)
          [] category = "Rifle" -> IncludesAny(name, RifleFilter)
          [] category = "Pistol" -> IncludesAny(name, PistolFilter)
          [] category = "SMG" -> IncludesAny(name, SmgFilter)
          [] OTHER -> TRUE

\* filterByCategory(listings, category); the empty category is "".
filterByCategory(listings, category) ==
    IF category = "All" \/ category = "" THEN listings
    ELSE SelectSeq(listings, LAMBDA item : PassesFilter(item, category))

\* --------------------------------------------------- the trending listings

\* Math.log(n), in thousandths, for the arguments volume + 1 that occur.
MathLog(n) ==
    CASE n = 1 -> 0
      [] n = 2 -> 693
      [] n = 5001 -> 8517
      [] n = 8001 -> 8987
      [] n = 8002 -> 8987

\* calculatePriceChangePercent(minPrice, maxPrice, qty): random is the value
\* of Math.random() in hundredths; the result is in 1/5000 of a percent.
calculatePriceChangePercent(minPrice, maxPrice, qty, random) ==
    LET baseChange == ((random - 50) * 20) \div 100
        volumeBoost == Min(qty, 5000)
    IN  baseChange * (5000 + volumeBoost)

\* Math.abs(x).
MathAbs(x) == IF x < 0 THEN -x ELSE x

\* The callback of the map of processTrendingListings: null for an entry
\* without skin data, else the trending item. Prices of the entry are in
\* cents, prices of the item in thousandths of a dollar; max_price 0 stands
\* for a missing one. The sparkline and the display fields that derive from
\* the name and the skin data alone are left out.
TrendingItem(item, random) ==
    IF ~item.skinData THEN Null
    ELSE LET currentPrice == item.min_price * 10
             maxPrice == IF item.max_price # 0 THEN item.max_price * 10
                         ELSE currentPrice
             avgPrice == (currentPrice + maxPrice) \div 2
             priceChange == calculatePriceChangePercent(
                                currentPrice, maxPrice, item.qty, random)
         IN  Some([id |-> <<item.market_hash_name, item.qty>>,
                   name |-> item.market_hash_name,
                   currentPrice |-> avgPrice,
                   referencePrice |-> currentPrice,
                   priceChange |-> priceChange,
                   priceChangeAbs |-> MathAbs(priceChange),
                   volume |-> item.qty])

\* The score the sort of processTrendingListings compares, in millionths of
\* 1/5000 of a percent.
Score(a) == a.priceChangeAbs * MathLog(a.volume + 1)

\* The comparator of an ascending sort.
CompareScore_Ascending(a, b) == Score(a) - Score(b)

\* The comparator of the sort: negative when a goes first.
CompareScore(a, b) == Score(b) - Score(a)

\* Array.prototype.sort with that comparator: the sort is stable, an item
\* goes behind the items it does not precede.
RECURSIVE InsertByScore(_, _)
InsertByScore(item, sorted) ==
    IF sorted = <<>> THEN <<item>>
    ELSE IF CompareScore(Head(sorted), item) <= 0
         THEN <<Head(sorted)>> \o InsertByScore(item, Tail(sorted))
         ELSE <<item>> \o sorted

RECURSIVE SortByScore(_)
SortByScore(items) ==
    IF items = <<>> THEN <<>>
    ELSE InsertByScore(items[Len(items)],
                       SortByScore(SubSeq(items, 1, Len(items) - 1)))

\* A filter without the price test.
KeepsItem_AnyPrice(item) == ~IsNull(item)

\* The filter of processTrendingListings.
KeepsItem(item) == ~IsNull(item) /\ Get(item).currentPrice > 0

\* .map(...).filter(...).
RECURSIVE MapAndFilter(_, _)
MapAndFilter(priceListData, randoms) ==
    IF priceListData = <<>> THEN <<>>
    ELSE LET item == TrendingItem(Head(priceListData), Head(randoms))
         IN  (IF KeepsItem(item) THEN <<Get(item)>> ELSE <<>>)
             \o MapAndFilter(Tail(priceListData), Tail(randoms))

\* processTrendingListings(priceListData); priceListData is nullable, and
\* randoms[i] is what Math.random() returns for the i-th entry.
processTrendingListings(priceListData, randoms) ==
    IF IsNull(priceListData) \/ Len(Get(priceListData)) = 0 THEN <<>>
    ELSE SortByScore(MapAndFilter(Get(priceListData), randoms))

\* ------------------------------------------------------------------ state

VARIABLES
    priceData,      \* the price map handed to getSkinPrice, or null
    request,        \* the arguments of the call of a pure function, or null
    result,         \* what that call returned
    now,            \* Date.now(), in hours
    chart,          \* the mounted chart: which component, its props and state
    loads,          \* the chart's loadPriceHistory calls
    storedHistory,  \* AsyncStorage "@price_history": the snapshot log, or null
    simStore,       \* AsyncStorage "@simulated_history_v2_<name>", per name
    simCalls,       \* the generateSimulatedHistory calls
    lastPriceUpdate,\* the provider's lastPriceUpdate state, or null
    refreshes,      \* the provider's loadPrices calls
    sync            \* the provider's syncFromAPI call and its error state

resolverVars == <<priceData, request, result>>

chartVars == <<chart, loads, storedHistory>>

simVars == <<simStore, simCalls>>

providerVars == <<lastPriceUpdate, refreshes, sync>>

vars == <<resolverVars, now, chartVars, simVars, providerVars>>

\* Most loadPriceHistory calls of one run.
MaxLoads == 2

\* Most snapshots in the stored log.
MaxSnapshots == 3

\* Most generateSimulatedHistory calls of one run.
MaxSimCalls == 2

\* Largest daysBack argument.
MaxDaysBack == 2

\* The clock advances by ClockStep hours up to MaxClock.
ClockStep == 12

MaxClock == 36

\* The identifier the chart is mounted with, and the one its parent may pass
\* later.
ChartName == AkCaseHardened \o WearSuffix(FieldTested)

ChartNames == {ChartName, StatTrakPrefix \o ChartName}

\* currentPrice as the parent passes it: undefined (falsy) or 2.50.
CurrentPrices == {0, 2500}

\* The listings the stored snapshots were taken from: one that lists the
\* chart's identifiers, one that lists the identifier at 0 cents, one that does
\* not list it.
SnapshotListings ==
    << << [market_hash_name |-> ChartName, min_price |-> 500, qty |-> 3],
          [market_hash_name |-> StatTrakPrefix \o ChartName,
           min_price |-> 900, qty |-> 1] >>,
       << [market_hash_name |-> ChartName, min_price |-> 0, qty |-> 0] >>,
       << [market_hash_name |-> AkCaseHardened \o WearSuffix(MinimalWear),
           min_price |-> 700, qty |-> 2] >> >>

\* The snapshot savePriceSnapshot stores at time timestamp for a price map.
Snapshot(timestamp, prices) ==
    [timestamp |-> timestamp,
     date |-> JsonDate(DateOf(timestamp)),
     prices |-> prices]

\* The snapshot logs the chart may find, the last snapshot taken at newest:
\* nothing stored, up to MaxSnapshots daily snapshots that list the chart's
\* identifiers, and a log whose snapshots list the identifier at 0 cents, not
\* at all, and at a price.
StoredLogs(newest) ==
    LET Log(ix) ==
            Some([k \in 1..Len(ix) |->
                    Snapshot(newest - (Len(ix) - k) * Day,
                             Get(fetchPriceData(SnapshotListings[ix[k]])))])
    IN  {Null, Log(<<2, 3, 1>>)} \cup
        {Log([k \in 1..n |-> 1]) : n \in 1..MaxSnapshots}

\* A loadPriceHistory call that has not started.
IdleLoad ==
    [pc |-> "idle", queryName |-> EmptyStr, period |-> "7d",
     history |-> <<>>, calls |-> <<>>, remote |-> Null, local |-> Null]

\* A generateSimulatedHistory call that has not started.  real is the real
\* series when the call is made by getEnrichedPriceHistory.
IdleSimCall ==
    [pc |-> "idle", marketHashName |-> EmptyStr, currentPrice |-> 0,
     daysBack |-> 0, startedAt |-> 0, history |-> <<>>, generatedAt |-> 0,
     result |-> <<>>, failed |-> FALSE, real |-> Null]

\* The chart before it is mounted: useState's initial values.  chartWidth is
\* counted in tenths of the minimal width; the initial single pixel is 0.
InitialChart(variant, currentPrice) ==
    [variant |-> variant, marketHashName |-> ChartName,
     currentPrice |-> currentPrice, period |-> "7d", selectedWear |-> Null,
     isStatTrak |-> FALSE, priceHistory |-> <<>>, loading |-> TRUE,
     displayPrice |-> currentPrice, chartWidth |-> 0]

ResolverIdle == priceData = Null /\ request = Null /\ result = Null

ChartIdle ==
    /\ chart = InitialChart("enhanced", 0)
    /\ loads = [l \in 1..MaxLoads |-> IdleLoad]
    /\ storedHistory = Null

SimIdle ==
    /\ simStore = [n \in ChartNames |-> Null]
    /\ simCalls = [c \in 1..MaxSimCalls |-> IdleSimCall]

\* Most loadPrices calls of one run.
MaxRefreshes == 2

\* const MAX_HISTORY_DAYS = 30
MAX_HISTORY_DAYS == 30

\* A loadPrices call that has not started.  timestamp and filteredHistory are
\* the locals of its savePriceSnapshot call, which also remembers in logBefore
\* the persisted log it began over; installed counts the setPriceData calls
\* up to and including its own.
IdleRefresh ==
    [pc |-> "idle", prices |-> Null, timestamp |-> 0, filteredHistory |-> <<>>,
     logBefore |-> Null, installed |-> 0,
     readFailed |-> FALSE, writeFailed |-> FALSE, escaped |-> FALSE]

\* The endpoints of fetchSkinsFromAPI, in the declared order.
Endpoints == <<"raw/skins.json", "api/skins.json",
               "raw/skins_not_grouped.json", "api/skins_not_grouped.json">>

\* A syncFromAPI call that has not started, with the provider's items,
\* isLoading and error states. attempts lists what fetchSkinsFromAPI got from
\* the endpoints it contacted; fetchReturned and fetchThrown are the outcome
\* of fetchSkinsFromAPI, returned and thrown the outcome of syncFromAPI.
IdleSync ==
    [pc |-> "idle", endpoint |-> 0, attempts |-> <<>>, lastError |-> Null,
     fetchReturned |-> Null, fetchThrown |-> Null, items |-> <<>>,
     isLoading |-> TRUE, error |-> Null, returned |-> Null, thrown |-> Null]

ProviderIdle ==
    /\ lastPriceUpdate = Null
    /\ refreshes = [c \in 1..MaxRefreshes |-> IdleRefresh]
    /\ sync = IdleSync

\* ------------------------------------------------------- the resolver calls

\* The skin names getSkinPrice is called with: a special item with a pattern,
\* the same written without blanks around "|", the same with the StatTrak
\* marker in the name, a vanilla special item, an ordinary skin, and the
\* empty name.
RequestNames ==
    { StarBayonetDoppler,
      StarBayonet \o <<"Bar">> \o <<"Doppler">>,
      StarStatTrakBayonetDoppler,
      StarBayonet,
      AkCaseHardened,
      EmptyStr }

\* The wear arguments: none, and two of the five wears.
RequestWears == {NoWear, FieldTested, FactoryNew}

Requests ==
    [skinName : RequestNames, wear : RequestWears,
     stattrak : BOOLEAN, souvenir : BOOLEAN]

\* The price map is null, or what fetchPriceData built from a listing.
InitResolver ==
    /\ priceData \in {Null} \cup {fetchPriceData(l) : l \in Listings}
    /\ request = Null
    /\ result = Null
    /\ now = 0
    /\ ChartIdle
    /\ SimIdle
    /\ ProviderIdle

\* The call getSkinPrice(priceData, skinName, wear, stattrak, souvenir) of a
\* run: the function keeps no state, so one call per price map shows all.
CallGetSkinPrice(r) ==
    /\ request = Null
    /\ request' = Some(r)
    /\ result' = getSkinPrice(priceData, r.skinName, r.wear, r.stattrak,
                              r.souvenir)
    /\ UNCHANGED <<priceData, now, chartVars, simVars, providerVars>>

NextResolver == \E r \in Requests : CallGetSkinPrice(r)

SpecResolver == InitResolver /\ [][NextResolver]_vars

\* --------------------------------------------------------- the chart loads

\* The chart component is mounted over some stored snapshot log, recent or
\* older than every period.
InitChart ==
    /\ ResolverIdle
    /\ now = 0
    /\ chart \in {InitialChart(v, p) :
                    v \in {"enhanced", "simple"}, p \in CurrentPrices}
    /\ loads = [l \in 1..MaxLoads |-> IdleLoad]
    /\ storedHistory \in StoredLogs(now - 1) \cup StoredLogs(now - 40 * Day)
    /\ SimIdle
    /\ ProviderIdle

Started == {l \in 1..MaxLoads : loads[l].pc # "idle"}

\* The synchronous head of loadPriceHistory, run by the effect for the
\* selection c: setLoading(true), the query name, and the remote query sent.
StartLoad(c) ==
    /\ Cardinality(Started) < MaxLoads
    /\ chart' = [c EXCEPT !.loading = TRUE]
    /\ loads' = [loads EXCEPT ![Cardinality(Started) + 1] =
          [pc |-> "remote",
           queryName |-> IF c.variant = "enhanced"
                         THEN QueryName(c.marketHashName, c.selectedWear,
                                        c.isStatTrak)
                         ELSE c.marketHashName,
           period |-> c.period,
           history |-> <<>>,
           calls |-> <<"remote">>,
           remote |-> Null,
           local |-> Null]]

\* The effect of the first render.
Mount ==
    /\ Started = {}
    /\ StartLoad(chart)
    /\ UNCHANGED <<resolverVars, now, storedHistory, simVars, providerVars>>

\* The selectors are rendered only while no load is shown as running.
Selectable == Started # {} /\ ~chart.loading

\* setPeriod(p) and the effect it triggers.
SelectPeriod(p) ==
    /\ Selectable /\ p # chart.period
    /\ StartLoad([chart EXCEPT !.period = p])
    /\ UNCHANGED <<resolverVars, now, storedHistory, simVars, providerVars>>

\* The wear keys the selector offers: Default (null) and one wear.
WearKeys == {Null, Some("FT")}

\* setSelectedWear(key) and the effect it triggers.
SelectWear(w) ==
    /\ Selectable /\ chart.variant = "enhanced" /\ w # chart.selectedWear
    /\ StartLoad([chart EXCEPT !.selectedWear = w])
    /\ UNCHANGED <<resolverVars, now, storedHistory, simVars, providerVars>>

\* setIsStatTrak(value) and the effect it triggers.
ToggleStatTrak ==
    /\ Selectable /\ chart.variant = "enhanced"
    /\ StartLoad([chart EXCEPT !.isStatTrak = ~chart.isStatTrak])
    /\ UNCHANGED <<resolverVars, now, storedHistory, simVars, providerVars>>

\* The parent renders the chart with another marketHashName, at any time.
ChangeMarketHashName(n) ==
    /\ Started # {} /\ n # chart.marketHashName
    /\ StartLoad([chart EXCEPT !.marketHashName = n])
    /\ UNCHANGED <<resolverVars, now, storedHistory, simVars, providerVars>>

\* The tail of loadPriceHistory once history is resolved: the period filter,
\* the chart width, setPriceHistory, setDisplayPrice and, in the finally
\* block, setLoading(false).
Finish(l, load, history) ==
    LET filtered == FilterByPeriod(history, now, load.period)
    IN  /\ chart' =
              IF chart.variant = "enhanced"
              THEN [chart EXCEPT
                      !.priceHistory = filtered,
                      !.chartWidth = ZoomFactor(Len(filtered)),
                      !.displayPrice =
                          IF Len(filtered) > 0
                          THEN filtered[Len(filtered)].price
                          ELSE chart.currentPrice,
                      !.loading = FALSE]
              ELSE [chart EXCEPT !.priceHistory = filtered,
                                 !.loading = FALSE]
        /\ loads' = [loads EXCEPT ![l] = [load EXCEPT !.pc = "done",
                                                    !.history = history]]

\* The guard of tier 3: history.length === 0.
NeedsSynthetic_Below7(history) == Len(history) < 7

NeedsSynthetic(history) == Len(history) = 0

\* Tier 3 of the enhanced chart, run when history is still empty.
FinishWithFallback(l, load, history) ==
    IF NeedsSynthetic(history)
    THEN \E draw \in RandomDraws :
            Finish(l, [load EXCEPT !.calls = Append(load.calls, "synthetic")],
                   SyntheticPoints(chart.currentPrice, load.period, now, draw))
    ELSE Finish(l, load, history)

\* The local query is sent.
AwaitLocal(l, load) ==
    /\ loads' = [loads EXCEPT ![l] =
                    [load EXCEPT !.pc = "local",
                                 !.calls = Append(load.calls, "local")]]
    /\ UNCHANGED chart

\* The remote query of load l completes with outcome o.  The enhanced chart
\* keeps a non-empty answer and otherwise turns to the local tier; the simple
\* chart keeps every answer that has a length and turns to the local tier
\* only in its catch block.
RemoteDone(l, o) ==
    /\ loads[l].pc = "remote"
    /\ LET load == [loads[l] EXCEPT !.remote = Some(o)]
       IN  IF chart.variant = "enhanced"
           THEN IF ~o.throws /\ HasPoints(o.value)
                THEN Finish(l, load, Get(o.value))
                ELSE AwaitLocal(l, load)
           ELSE IF ~o.throws /\ ~IsNull(o.value)
                THEN Finish(l, load, Get(o.value))
                ELSE AwaitLocal(l, load)
    /\ UNCHANGED <<resolverVars, now, storedHistory, simVars, providerVars>>

\* The local query of load l completes; readThrows says whether the storage
\* read failed inside getPriceHistory.
LocalDone(l, readThrows) ==
    /\ loads[l].pc = "local"
    /\ LET localHistory ==
               getSkinPriceHistory(storedHistory, readThrows,
                                   loads[l].queryName)
           load == [loads[l] EXCEPT !.local = Some(localHistory)]
       IN  IF chart.variant = "enhanced"
           THEN FinishWithFallback(l, load, localHistory)
           ELSE Finish(l, load, localHistory)
    /\ UNCHANGED <<resolverVars, now, storedHistory, simVars, providerVars>>

NextChart ==
    \/ Mount
    \/ \E p \in Periods : SelectPeriod(p)
    \/ \E w \in WearKeys : SelectWear(w)
    \/ ToggleStatTrak
    \/ \E n \in ChartNames : ChangeMarketHashName(n)
    \/ \E l \in 1..MaxLoads : \E o \in RemoteOutcomes(now) : RemoteDone(l, o)
    \/ \E l \in 1..MaxLoads : \E t \in BOOLEAN : LocalDone(l, t)

SpecChart == InitChart /\ [][NextChart]_vars

\* ------------------------------------------- the simulated-history calls

InitSim ==
    /\ ResolverIdle
    /\ now = 0
    /\ ChartIdle
    /\ SimIdle
    /\ ProviderIdle

SimStarted == {c \in 1..MaxSimCalls : simCalls[c].pc # "idle"}

\* generateSimulatedHistory(marketHashName, currentPrice, daysBack) is called
\* and sends its storage read.
CallGenerateSimulatedHistory(marketHashName, currentPrice, daysBack) ==
    /\ Cardinality(SimStarted) < MaxSimCalls
    /\ simCalls' = [simCalls EXCEPT ![Cardinality(SimStarted) + 1] =
          [IdleSimCall EXCEPT !.pc = "read",
                              !.marketHashName = marketHashName,
                              !.currentPrice = currentPrice,
                              !.daysBack = daysBack,
                              !.startedAt = now]]
    /\ UNCHANGED <<resolverVars, now, chartVars, simStore, providerVars>>

\* The storage read of call c completes.  A failed read ends the call with
\* the empty list; a cached entry younger than a day is returned; otherwise
\* the series is generated and the storage write is sent.
SimReadDone(c, readThrows) ==
    /\ simCalls[c].pc = "read"
    /\ LET call == simCalls[c]
           existingData == simStore[call.marketHashName]
       IN  IF readThrows
           THEN simCalls' = [simCalls EXCEPT ![c].pc = "done",
                                             ![c].failed = TRUE]
           ELSE IF CacheFresh(existingData, now)
           THEN simCalls' = [simCalls EXCEPT
                    ![c].pc = "done",
                    ![c].result = Get(existingData).history]
           ELSE \E draw \in RandomDraws :
                  simCalls' = [simCalls EXCEPT
                    ![c].pc = "write",
                    ![c].generatedAt = now,
                    ![c].history = SimulatedHistory(call.currentPrice,
                                                    call.daysBack, now, draw)]
    /\ UNCHANGED <<resolverVars, now, chartVars, simStore, providerVars>>

\* The storage write of call c completes: the entry is stored as JSON and the
\* generated series returned, or the write failed and the call returns the
\* empty list.
SimWriteDone(c, writeThrows) ==
    /\ simCalls[c].pc = "write"
    /\ LET call == simCalls[c]
       IN  IF writeThrows
           THEN /\ simCalls' = [simCalls EXCEPT ![c].pc = "done",
                                                ![c].failed = TRUE]
                /\ UNCHANGED simStore
           ELSE /\ simStore' = [simStore EXCEPT ![call.marketHashName] =
                        Some([history |-> JsonHistory(call.history),
                              generatedAt |-> call.generatedAt,
                              currentPrice |-> call.currentPrice])]
                /\ simCalls' = [simCalls EXCEPT ![c].pc = "done",
                                                ![c].result = call.history]
    /\ UNCHANGED <<resolverVars, now, chartVars, providerVars>>

\* Time passes.
AdvanceClock ==
    /\ now + ClockStep <= MaxClock
    /\ now' = now + ClockStep
    /\ UNCHANGED <<resolverVars, chartVars, simVars, providerVars>>

NextSim ==
    \/ \E n \in ChartNames, p \in CurrentPrices \ {0}, d \in 1..MaxDaysBack :
          CallGenerateSimulatedHistory(n, p, d)
    \/ \E c \in 1..MaxSimCalls, t \in BOOLEAN : SimReadDone(c, t)
    \/ \E c \in 1..MaxSimCalls, t \in BOOLEAN : SimWriteDone(c, t)
    \/ AdvanceClock

SpecSim == InitSim /\ [][NextSim]_vars

\* ------------------------------------------------ the enriched history

\* The snapshot logs getEnrichedPriceHistory may find: nothing stored, and
\* logs of 1, 6, 7 and 8 daily snapshots that list the identifier.
EnrichedLogs ==
    {Null} \cup
    {Some([k \in 1..n |->
             Snapshot(now - (n - k) * Day,
                      Get(fetchPriceData(SnapshotListings[1])))]) :
        n \in {1, 6, 7, 8}}

\* The calls are made within one day, so that a cached series stays fresh.
InitEnriched ==
    /\ ResolverIdle
    /\ now = 0
    /\ chart = InitialChart("enhanced", 0)
    /\ loads = [l \in 1..MaxLoads |-> IdleLoad]
    /\ storedHistory \in EnrichedLogs
    /\ SimIdle
    /\ ProviderIdle

\* The guard of getEnrichedPriceHistory with the test the other way round.
TooFewReal_AtLeast7(realHistory) == Len(realHistory) >= 7

\* realHistory.length < 7
TooFewReal(realHistory) == Len(realHistory) < 7

\* getEnrichedPriceHistory(marketHashName, currentPrice) is called and sends
\* the storage read of getSkinPriceHistory.
CallGetEnrichedPriceHistory(marketHashName, currentPrice) ==
    /\ Cardinality(SimStarted) < MaxSimCalls
    /\ simCalls' = [simCalls EXCEPT ![Cardinality(SimStarted) + 1] =
          [IdleSimCall EXCEPT !.pc = "real",
                              !.marketHashName = marketHashName,
                              !.currentPrice = currentPrice,
                              !.startedAt = now]]
    /\ UNCHANGED <<resolverVars, now, chartVars, simStore, providerVars>>

\* getSkinPriceHistory resolves for call c: the real series is returned when
\* it has 7 points or more; otherwise generateSimulatedHistory is called for
\* 30 days and sends its storage read.
RealHistoryDone(c, readThrows) ==
    /\ simCalls[c].pc = "real"
    /\ LET realHistory ==
               getSkinPriceHistory(storedHistory, readThrows,
                                   simCalls[c].marketHashName)
       IN  simCalls' = [simCalls EXCEPT ![c] =
              IF TooFewReal(realHistory)
              THEN [@ EXCEPT !.pc = "read", !.daysBack = 30,
                             !.real = Some(realHistory)]
              ELSE [@ EXCEPT !.pc = "done", !.result = realHistory,
                             !.real = Some(realHistory)]]
    /\ UNCHANGED <<resolverVars, now, chartVars, simStore, providerVars>>

NextEnriched ==
    \/ \E n \in {ChartName}, p \in CurrentPrices \ {0} :
          CallGetEnrichedPriceHistory(n, p)
    \/ \E c \in 1..MaxSimCalls, t \in BOOLEAN : RealHistoryDone(c, t)
    \/ \E c \in 1..MaxSimCalls, t \in BOOLEAN : SimReadDone(c, t)
    \/ \E c \in 1..MaxSimCalls, t \in BOOLEAN : SimWriteDone(c, t)

SpecEnriched == InitEnriched /\ [][NextEnriched]_vars

\* ------------------------------------------------- the price-refresh cycles

\* What fetchPriceData resolves to: null after a failed request, or the map
\* built from the listing.
FetchedPrices == {Null, fetchPriceData(SnapshotListings[1])}

\* The provider is mounted over nothing stored or over a snapshot log of
\* MaxSnapshots entries, the last 29 days old.
InitRefresh ==
    /\ ResolverIdle
    /\ now = 0
    /\ chart = InitialChart("enhanced", 0)
    /\ loads = [l \in 1..MaxLoads |-> IdleLoad]
    /\ storedHistory \in {l \in StoredLogs(now - 29 * Day) :
                            IsNull(l) \/ Len(Get(l)) = MaxSnapshots}
    /\ SimIdle
    /\ ProviderIdle

RefreshStarted == {c \in 1..MaxRefreshes : refreshes[c].pc # "idle"}

\* loadPrices is called (at mount, by the timer or on return to the
\* foreground) and sends its request.
CallLoadPrices ==
    /\ Cardinality(RefreshStarted) < MaxRefreshes
    /\ refreshes' = [refreshes EXCEPT ![Cardinality(RefreshStarted) + 1].pc =
                         "fetch"]
    /\ UNCHANGED <<resolverVars, now, chartVars, simVars, lastPriceUpdate,
                   sync>>

\* The snapshot log as savePriceSnapshot leaves it: the snapshot appended,
\* then only entries with snapshot.timestamp > cutoffDate.
Retained(history, timestamp, prices) ==
    LET cutoffDate == timestamp - MAX_HISTORY_DAYS * Day
        keep(snapshot) == snapshot.timestamp > cutoffDate
    IN  Filter(Append(history, Snapshot(timestamp, prices)), keep)

\* fetchPriceData of call c resolves.  Without prices the call ends; with
\* prices it sets priceData and lastPriceUpdate, enters savePriceSnapshot,
\* takes the timestamp and sends the storage read of getPriceHistory.
FetchDone(c, prices) ==
    /\ refreshes[c].pc = "fetch"
    /\ IF IsNull(prices)
       THEN /\ refreshes' = [refreshes EXCEPT ![c].pc = "done"]
            /\ UNCHANGED <<priceData, lastPriceUpdate>>
       ELSE /\ priceData' = prices
            /\ lastPriceUpdate' = Some(now)
            /\ refreshes' = [refreshes EXCEPT ![c] =
                 [@ EXCEPT !.pc = "read",
                           !.prices = prices,
                           !.timestamp = now,
                           !.logBefore = storedHistory,
                           !.installed =
                               1 + Cardinality({d \in 1..MaxRefreshes :
                                                 refreshes[d].installed > 0})]]
    /\ UNCHANGED <<request, result, now, chartVars, simVars, sync>>

\* Whether savePriceSnapshot lets an exception of its body out: its catch
\* block logs and returns.
Rethrows_Everything(threw) == threw

Rethrows(threw) == FALSE

\* The storage read of getPriceHistory resolves for call c; a failed read or
\* parse is caught there and gives the empty list.  The snapshot is pushed,
\* the log filtered, and the storage write sent.
SnapshotReadDone(c, readThrows) ==
    /\ refreshes[c].pc = "read"
    /\ LET history == getPriceHistory(storedHistory, readThrows)
       IN  refreshes' = [refreshes EXCEPT ![c] =
             [@ EXCEPT !.pc = "write",
                       !.readFailed = readThrows,
                       !.filteredHistory =
                           Retained(history, refreshes[c].timestamp,
                                    Get(refreshes[c].prices))]]
    /\ UNCHANGED <<resolverVars, now, chartVars, simVars, lastPriceUpdate,
                   sync>>

\* The storage write of call c resolves; a failure is caught by
\* savePriceSnapshot.  loadPrices goes on to the cloud save when the cloud
\* store is configured.
SnapshotWriteDone(c, writeThrows, configured) ==
    /\ refreshes[c].pc = "write"
    /\ storedHistory' = IF writeThrows THEN storedHistory
                        ELSE Some(refreshes[c].filteredHistory)
    /\ refreshes' = [refreshes EXCEPT ![c] =
          [@ EXCEPT !.pc = IF Rethrows(writeThrows) \/ ~configured
                           THEN "done" ELSE "cloud",
                    !.writeFailed = writeThrows,
                    !.escaped = Rethrows(writeThrows),
                    !.filteredHistory = <<>>,
                    !.logBefore = Null]]
    /\ UNCHANGED <<resolverVars, now, chart, loads, simVars,
                   lastPriceUpdate, sync>>

\* The cloud save of call c resolves or throws; loadPrices catches it.
CloudSaveDone(c, cloudThrows) ==
    /\ refreshes[c].pc = "cloud"
    /\ refreshes' = [refreshes EXCEPT ![c].pc = "done"]
    /\ UNCHANGED <<resolverVars, now, chartVars, simVars, lastPriceUpdate,
                   sync>>

NextRefresh ==
    \/ CallLoadPrices
    \/ \E c \in 1..MaxRefreshes, p \in FetchedPrices : FetchDone(c, p)
    \/ \E c \in 1..MaxRefreshes, t \in BOOLEAN : SnapshotReadDone(c, t)
    \/ \E c \in 1..MaxRefreshes, t \in BOOLEAN, g \in BOOLEAN :
          SnapshotWriteDone(c, t, g)
    \/ \E c \in 1..MaxRefreshes, t \in BOOLEAN : CloudSaveDone(c, t)
    \/ AdvanceClock

SpecRefresh == InitRefresh /\ [][NextRefresh]_vars

\* ------------------------------------------------------ the metadata sync

\* The skins the endpoints serve: a rifle skin, a sticker, a knife without a
\* weapon entry, a tool with one, and an item with neither weapon nor category.
\* weapon <<>> and category "" stand for missing ones.
Skin(id, weapon, category) == [id |-> id, weapon |-> weapon, category |-> category]

Payloads ==
    {<<>>,
     <<Skin(1, <<"AK-47">>, "Rifles"), Skin(2, <<>>, "Sticker")>>,
     <<Skin(3, <<>>, "Knives"), Skin(4, <<"Zeus">>, "Tool"), Skin(5, <<>>, "")>>}

ExcludedCategories ==
    {"Sticker", "Graffiti", "Patch", "Agent", "Music Kit", "Container", "Tool",
     "Key", "Pass", "Gift", "Tag"}

\* The callback of data.filter in fetchSkinsFromAPI.
IsWeaponSkin(skin) ==
    /\ skin.category \notin ExcludedCategories
    /\ \/ skin.weapon # <<>>
       \/ skin.category = "Knives"
       \/ skin.category = "Gloves"

\* data.filter(...)
FilteredSkins(data) == SelectSeq(data, IsWeaponSkin)

\* The callback of apiData.map in syncFromAPI, reduced to the identifier, the
\* weapon and the category.
ProcessedItem(skin) ==
    [id |-> skin.id, weapon |-> skin.weapon,
     category |-> IF skin.weapon # <<>> THEN determineCategory(skin.weapon)
                  ELSE IF skin.category # "" THEN skin.category
                  ELSE "Other"]

\* What fetchWithTimeout ends with: a thrown error or a response status.
FetchOutcomes ==
    {[threw |-> Some("Network request failed"), status |-> 0],
     [threw |-> Some("Request timeout - server took too long to respond"),
      status |-> 0],
     [threw |-> Null, status |-> 404],
     [threw |-> Null, status |-> 500],
     [threw |-> Null, status |-> 200]}

\* What reading the body of an OK response ends with: response.json() throws,
\* the value is not a list (data.filter throws), or it is a list of skins.
BodyOutcomes ==
    {[threw |-> Some("JSON Parse error"), data |-> Null],
     [threw |-> Some("data.filter is not a function"), data |-> Null]}
    \cup {[threw |-> Null, data |-> Some(d)] : d \in Payloads}

\* The message of the error thrown for a response that is not OK.
HttpError(status) == IF status = 404 THEN "HTTP 404" ELSE "HTTP 500"

InitSync ==
    /\ ResolverIdle
    /\ now = 0
    /\ ChartIdle
    /\ SimIdle
    /\ ProviderIdle

\* syncFromAPI up to the first await of fetchSkinsFromAPI: setError(null) and
\* the request to the first endpoint.
SyncFromAPI ==
    /\ sync.pc \in {"idle", "done"}
    /\ sync' = [sync EXCEPT !.pc = "fetch", !.endpoint = 1, !.attempts = <<>>,
                            !.lastError = Null, !.fetchReturned = Null,
                            !.fetchThrown = Null, !.error = Null,
                            !.returned = Null, !.thrown = Null]
    /\ UNCHANGED <<resolverVars, now, chartVars, simVars, lastPriceUpdate,
                   refreshes>>

\* The catch of syncFromAPI.
SyncFailed(s, err) ==
    [s EXCEPT !.pc = "done", !.error = Some("Could not sync data from API."),
              !.isLoading = FALSE, !.thrown = Some(err)]

\* A loop that gives up at the first endpoint that fails.
EndpointFailed_GiveUp(s, attempt) ==
    SyncFailed([s EXCEPT !.attempts = Append(@, attempt),
                         !.lastError = attempt.error,
                         !.fetchThrown = attempt.error],
               Get(attempt.error))

\* The catch of the loop of fetchSkinsFromAPI, and what follows it: the next
\* endpoint, or throw lastError after the last one.
EndpointFailed(s, attempt) ==
    LET failed == [s EXCEPT !.attempts = Append(@, attempt),
                            !.lastError = attempt.error]
    IN  IF s.endpoint < Len(Endpoints)
        THEN [failed EXCEPT !.pc = "fetch", !.endpoint = s.endpoint + 1]
        ELSE SyncFailed([failed EXCEPT !.fetchThrown = attempt.error],
                        Get(attempt.error))

\* fetchWithTimeout(endpoint) completes.
FetchWithTimeoutDone(outcome) ==
    /\ sync.pc = "fetch"
    /\ LET endpoint == Endpoints[sync.endpoint]
       IN  sync' =
               IF ~IsNull(outcome.threw)
               THEN EndpointFailed(sync, [endpoint |-> endpoint,
                                          status |-> 0,
                                          error |-> outcome.threw,
                                          data |-> Null])
               ELSE IF outcome.status # 200
               THEN EndpointFailed(sync, [endpoint |-> endpoint,
                                          status |-> outcome.status,
                                          error |-> Some(HttpError(outcome.status)),
                                          data |-> Null])
               ELSE [sync EXCEPT !.pc = "json"]
    /\ UNCHANGED <<resolverVars, now, chartVars, simVars, lastPriceUpdate,
                   refreshes>>

\* response.json() completes: on a list, fetchSkinsFromAPI returns the
\* filtered skins and syncFromAPI maps them and calls saveItems.
ResponseJsonDone(outcome) ==
    /\ sync.pc = "json"
    /\ LET endpoint == Endpoints[sync.endpoint]
       IN  sync' =
               IF ~IsNull(outcome.threw)
               THEN EndpointFailed(sync, [endpoint |-> endpoint,
                                          status |-> 200,
                                          error |-> outcome.threw,
                                          data |-> Null])
               ELSE [sync EXCEPT
                        !.pc = "save",
                        !.attempts = Append(@, [endpoint |-> endpoint,
                                                status |-> 200,
                                                error |-> Null,
                                                data |-> outcome.data]),
                        !.fetchReturned =
                            Some(FilteredSkins(Get(outcome.data)))]
    /\ UNCHANGED <<resolverVars, now, chartVars, simVars, lastPriceUpdate,
                   refreshes>>

\* saveItems(processedItems) completes.
SaveItemsDone(saveThrows) ==
    /\ sync.pc = "save"
    /\ LET apiData == Get(sync.fetchReturned)
           processedItems == [i \in 1..Len(apiData) |-> ProcessedItem(apiData[i])]
       IN  sync' =
               IF saveThrows THEN SyncFailed(sync, "saveItems failed")
               ELSE [sync EXCEPT !.pc = "done", !.items = processedItems,
                                 !.isLoading = FALSE,
                                 !.returned = Some(Len(processedItems))]
    /\ UNCHANGED <<resolverVars, now, chartVars, simVars, lastPriceUpdate,
                   refreshes>>

NextSync ==
    \/ SyncFromAPI
    \/ \E outcome \in FetchOutcomes : FetchWithTimeoutDone(outcome)
    \/ \E outcome \in BodyOutcomes : ResponseJsonDone(outcome)
    \/ \E saveThrows \in BOOLEAN : SaveItemsDone(saveThrows)

SpecSync == InitSync /\ [][NextSync]_vars

\* ------------------------------------------------- the resolver's properties

\* The vocabulary of the statements below, written from the specification's
\* words and not from getSkinPrice.

Called == request # Null

Req == Get(request)

\* The keys of the price map handed to the call.
Keys ==
    IF IsNull(priceData) THEN {}
    ELSE {Get(priceData)[i].key : i \in 1..Len(Get(priceData))}

\* The quote stored under a key of the price map.
Stored(key) ==
    LET map == Get(priceData)
    IN  map[CHOOSE i \in 1..Len(map) : map[i].key = key].info

\* The five standard wears in the order of the specification.
StandardWears ==
    << <<"Field-Tested">>, <<"Minimal Wear">>, <<"Factory New">>,
       <<"Well-Worn">>, <<"Battle-Scarred">> >>

\* The canonical identifier of a request with wear w.
CanonicalId(r, w) ==
    (IF r.stattrak THEN <<"StatTrak", "Sp">>
     ELSE IF r.souvenir THEN <<"Souvenir", "Sp">>
     ELSE <<>>)
    \o r.skinName
    \o (IF w # <<>> THEN <<"Sp", "LP">> \o w \o <<"RP">> ELSE <<>>)

\* The identifiers an exact answer to the request may carry: with the given
\* wear, or, when no wear is given, with no wear or one of the five.
CanonicalIds(r) ==
    IF r.wear # <<>> THEN {CanonicalId(r, r.wear)}
    ELSE {CanonicalId(r, <<>>)}
         \cup {CanonicalId(r, StandardWears[i]) : i \in 1..Len(StandardWears)}

\* The object returned for a key, tagged exact or approximate.
Answer(key, approximate) ==
    Some([avg |-> Stored(key).avg, min |-> Stored(key).min,
          max |-> Stored(key).max, currency |-> "USD",
          marketHashName |-> key, isApproximate |-> approximate])

\* A call that passes the guard: a price map and a name.
Served == Called /\ ~IsNull(priceData) /\ Req.skinName # <<>>

\* The fallback search of the specification for request r: the key starts with
\* "<base> | <pattern>", or with <base> and holds no "|" when the name has no
\* pattern; holds "(wear)" when a wear is given; and holds the StatTrak marker
\* exactly when marker is set.
SearchHit(key, r, marker) ==
    LET base == BaseWeapon(r.skinName)
        pattern == Pattern(r.skinName)
    IN  /\ IF pattern # <<>>
           THEN StartsWith(key, base \o <<"Sp", "Bar", "Sp">> \o pattern)
           ELSE StartsWith(key, base) /\ ~Includes(key, <<"Bar">>)
        /\ r.wear # <<>> => Includes(key, <<"LP">> \o r.wear \o <<"RP">>)
        /\ Includes(key, <<"StatTrak">>) <=> marker

\* C1: whenever the canonical identifier (StatTrak prefix before Souvenir
\* prefix, then the name, then " (wear)") is a key of the price map, the call
\* returns the quote stored under it, tagged exact, with that identifier as
\* marketHashName.
C1_ExactHit ==
    (Served /\ CanonicalId(Req, Req.wear) \in Keys)
        => result = Answer(CanonicalId(Req, Req.wear), FALSE)

\* A StatTrak and Souvenir request with a wear whose StatTrak identifier is a
\* key with a positive price.
C1_Witness ==
    /\ Served /\ Req.stattrak /\ Req.souvenir /\ Req.wear # <<>>
    /\ CanonicalId(Req, Req.wear) \in Keys
    /\ ~IsNull(result) /\ Get(result).avg > 0
    /\ StartsWith(Get(result).marketHashName, <<"StatTrak">>)

\* The first standard wear whose canonical identifier is a key.
FirstWearHit(r) ==
    CHOOSE i \in 1..Len(StandardWears) :
        /\ CanonicalId(r, StandardWears[i]) \in Keys
        /\ \A j \in 1..(i - 1) : CanonicalId(r, StandardWears[j]) \notin Keys

\* C2: a call without a wear whose wear-less identifier is no key returns the
\* exact quote of the first wear, in the order Field-Tested, Minimal Wear,
\* Factory New, Well-Worn, Battle-Scarred, whose identifier is a key.
C2_FirstWearInOrder ==
    (/\ Served /\ Req.wear = <<>>
     /\ CanonicalId(Req, <<>>) \notin Keys
     /\ \E i \in 1..Len(StandardWears) :
            CanonicalId(Req, StandardWears[i]) \in Keys)
        => result = Answer(CanonicalId(Req, StandardWears[FirstWearHit(Req)]),
                           FALSE)

\* The case of C3: a special name with a pattern, no wear, no StatTrak, no key
\* equal to the name or to the name with a wear, and a key without the
\* StatTrak marker that starts with "<base> | <pattern>".
C3_Case ==
    /\ Served /\ Includes(Req.skinName, <<"Star">>)
    /\ Pattern(Req.skinName) # <<>>
    /\ Req.wear = <<>> /\ ~Req.stattrak
    /\ Req.skinName \notin Keys
    /\ \A i \in 1..Len(StandardWears) :
           Req.skinName \o <<"Sp", "LP">> \o StandardWears[i] \o <<"RP">>
               \notin Keys
    /\ \E k \in Keys : SearchHit(k, Req, FALSE)

\* The answer C3 promises: the quote of a key of the search, tagged
\* approximate, with that key as marketHashName.
C3_Answer ==
    \E k \in Keys : SearchHit(k, Req, FALSE) /\ result = Answer(k, TRUE)

\* C3 as stated: in that case the call returns the matched key's quote tagged
\* approximate.
C3_Original == C3_Case => C3_Answer

\* C3 amended: the same for a call without the Souvenir flag.
C3_ApproximateByPattern == (C3_Case /\ ~Req.souvenir) => C3_Answer

\* The price map holds only a phase variant and the bare name is asked for.
C3_Witness ==
    /\ C3_Case /\ ~Req.souvenir
    /\ Keys = {StarBayonetDoppler \o Phase2}
    /\ result = Answer(StarBayonetDoppler \o Phase2, TRUE)

\* C4: an answer tagged exact carries a canonical identifier of the request,
\* and an answer that carries any other key of the price map is tagged
\* approximate.
C4_ApproximateIsFlagged ==
    (Called /\ ~IsNull(result)) =>
        /\ Get(result).marketHashName \in Keys
        /\ ~Get(result).isApproximate
               => Get(result).marketHashName \in CanonicalIds(Req)
        /\ Get(result).marketHashName \notin CanonicalIds(Req)
               => Get(result).isApproximate

\* An answer taken from a key that is no canonical identifier of the request.
C4_Witness ==
    /\ Called /\ ~IsNull(result)
    /\ Get(result).marketHashName \notin CanonicalIds(Req)
    /\ Get(result).isApproximate

\* The case of C5: a special name asked with StatTrak, no key in the search
\* with the marker, some key in the same search without it.
C5_Case ==
    /\ Served /\ Includes(Req.skinName, <<"Star">>) /\ Req.stattrak
    /\ \A k \in Keys : ~SearchHit(k, Req, TRUE)
    /\ \E k \in Keys : SearchHit(k, Req, FALSE)

\* C5 as stated: in that case the call returns the quote of a key without the
\* marker, tagged approximate.
C5_Original == C5_Case => C3_Answer

\* C5 amended: the same when no canonical identifier of the request is a key,
\* so that the exact lookup and the wear retries have missed.
C5_StatTrakRelaxed ==
    (C5_Case /\ CanonicalIds(Req) \cap Keys = {}) => C3_Answer

\* A StatTrak request answered from a key without the marker.
C5_Witness ==
    /\ C5_Case /\ CanonicalIds(Req) \cap Keys = {}
    /\ ~IsNull(result) /\ Get(result).isApproximate
    /\ ~Includes(Get(result).marketHashName, <<"StatTrak">>)

\* No exact, wear-retry or fallback match exists for the request.
NoMatch ==
    /\ Served
    /\ CanonicalIds(Req) \cap Keys = {}
    /\ Includes(Req.skinName, <<"Star">>) =>
           \A k \in Keys :
               /\ ~SearchHit(k, Req, Req.stattrak)
               /\ ~SearchHit(k, Req, FALSE)

\* C6: the call returns null when the price map is null or the name is empty,
\* and when nothing matches.
C6_NullWhenNothing ==
    Called =>
        /\ (IsNull(priceData) \/ Req.skinName = <<>>) => result = Null
        /\ NoMatch => result = Null

\* A special item asked of a price map that holds keys, none of them a match.
C6_Witness ==
    /\ NoMatch /\ Keys # {} /\ Includes(Req.skinName, <<"Star">>)
    /\ result = Null

\* C7: passing the wear as an argument and appending " (wear)" to the name by
\* hand give the same result.
C7_PreAppendedWear ==
    (Called /\ Req.wear # <<>>) =>
        result = getSkinPrice(priceData,
                     Req.skinName \o <<"Sp", "LP">> \o Req.wear \o <<"RP">>,
                     <<>>, Req.stattrak, Req.souvenir)


\* ------------------------------------------------- the chart's properties

Done == {l \in 1..MaxLoads : loads[l].pc = "done"}

\* The remote query of load l threw or returned no point.
RemoteEmpty(l) ==
    LET o == Get(loads[l].remote)
    IN  o.throws \/ ~HasPoints(o.value)

\* The local query of load l was made and returned no point.
LocalEmpty(l) ==
    /\ ~IsNull(loads[l].local)
    /\ Len(Get(loads[l].local)) = 0

Attempted(l, tier) == \E i \in 1..Len(loads[l].calls) : loads[l].calls[i] = tier

\* C8: in a finished load the local tier was queried only after the remote
\* tier threw or returned no point, the synthetic tier ran only after both
\* earlier tiers gave no point, a tier that gave a point is the last tier
\* attempted and its points are the result, and a remote answer without
\* points was followed by the local query.
C8_TierOrder ==
    \A l \in Done :
        /\ Attempted(l, "local") => RemoteEmpty(l)
        /\ Attempted(l, "synthetic") => RemoteEmpty(l) /\ LocalEmpty(l)
        /\ ~RemoteEmpty(l) =>
               /\ loads[l].calls = <<"remote">>
               /\ loads[l].history = Get(Get(loads[l].remote).value)
        /\ RemoteEmpty(l) => Attempted(l, "local")
        /\ (RemoteEmpty(l) /\ ~LocalEmpty(l)) =>
               /\ loads[l].calls = <<"remote", "local">>
               /\ loads[l].history = Get(loads[l].local)

\* The local points of load l: what the snapshot log holds for its query name.
LocalPoints(l) == getSkinPriceHistory(storedHistory, FALSE, loads[l].queryName)

\* The remote query of load l threw and the local query returned three points.
C9_Case(l) ==
    /\ l \in Done
    /\ Get(loads[l].remote).throws
    /\ ~IsNull(loads[l].local)
    /\ Len(Get(loads[l].local)) = 3

\* C9: when the remote store throws and the local snapshot log yields three
\* points with a positive price, the resolved history is those three points
\* and no synthetic point is generated.
C9_LocalPointsKept ==
    \A l \in 1..MaxLoads :
        C9_Case(l) =>
            /\ loads[l].history = LocalPoints(l)
            /\ Len(loads[l].history) = 3
            /\ \A i \in 1..3 : loads[l].history[i].price > 0
            /\ ~Attempted(l, "synthetic")

\* The case of C9 has happened in the enhanced chart, which has a synthetic
\* tier to keep out.
C9_Witness ==
    \E l \in 1..MaxLoads : C9_Case(l) /\ chart.variant = "enhanced"

\* ----------------------------------- the simulated history's properties

SimDone == {c \in 1..MaxSimCalls : simCalls[c].pc = "done"}

\* The series a call returned, as timestamps and prices.
Series(history) ==
    [i \in 1..Len(history) |->
        [timestamp |-> history[i].timestamp, price |-> history[i].price]]

\* C10: two finished calls for the same market identifier that met no storage
\* failure and were made less than 24 hours apart returned the same series.
C10_StableWithinADay ==
    \A c \in SimDone, d \in SimDone :
        ( /\ simCalls[c].marketHashName = simCalls[d].marketHashName
          /\ ~simCalls[c].failed /\ ~simCalls[d].failed
          /\ simCalls[d].startedAt - simCalls[c].startedAt < Day
          /\ simCalls[c].startedAt - simCalls[d].startedAt < Day )
        => Series(simCalls[c].result) = Series(simCalls[d].result)

\* ------------------------------------------- the calls of pure functions

\* Longest price series handed to calculatePriceChange.
MaxSeries == 3

\* The prices of a series: 0, 10.00 and prices 2 %, 5 %, just over 5 % and
\* 20 % above it, and 5 % and just over 5 % below it.
SeriesPrices == {0, 10000, 10200, 10500, 10510, 12000, 9500, 9490}

\* The series calculatePriceChange is called with: null, or up to MaxSeries
\* points.
PriceSeries ==
    {Null} \cup
    {Some([i \in DOMAIN ps |-> [price |-> ps[i]]]) :
        ps \in UNION {[1..n -> SeriesPrices] : n \in 0..MaxSeries}}

\* Longest weapon name, in fragments.
MaxNameLen == 3

\* The fragments weapon names are made of.
NameFragments ==
    {"Knife", "KNIFE", "karambit", "AK-47", "SG", Blank, "553", "Glock",
     "MP9", "Nova", "Negev", "Glove", "s", "Wraps", "Safari"}

\* The weapon names determineCategory is called with.
WeaponNames == UNION {[1..n -> NameFragments] : n \in 0..MaxNameLen}

\* The prices formatPrice is called with, in thousandths of a dollar: null,
\* a negative price, 0, and prices around each threshold of the function.
\* No price lies halfway between two printed values unless that half is
\* exact in binary.
FormatPrices ==
    {Null} \cup
    {Some(p) : p \in {-1000, 0, 5, 9, 10, 14, 125, 994, 996, 1000, 12340,
                      99994, 99996, 100000, 100400, 100500, 999400, 999500,
                      999600, 1000000, 1040000, 1500000, 1560000, 12340000}}

InitCalls ==
    /\ ResolverIdle
    /\ now = 0
    /\ ChartIdle
    /\ SimIdle
    /\ ProviderIdle

\* One call calculatePriceChange(priceHistory).
CallCalculatePriceChange(priceHistory) ==
    /\ request = Null
    /\ request' = Some([fn |-> "calculatePriceChange",
                        priceHistory |-> priceHistory])
    /\ result' = Some(calculatePriceChange(priceHistory))
    /\ UNCHANGED <<priceData, now, chartVars, simVars, providerVars>>

\* One call determineCategory(weaponName).
CallDetermineCategory(weaponName) ==
    /\ request = Null
    /\ request' = Some([fn |-> "determineCategory", weaponName |-> weaponName])
    /\ result' = Some(determineCategory(weaponName))
    /\ UNCHANGED <<priceData, now, chartVars, simVars, providerVars>>

\* One call formatPrice(price).
CallFormatPrice(price) ==
    /\ request = Null
    /\ request' = Some([fn |-> "formatPrice", price |-> price])
    /\ result' = Some(formatPrice(price))
    /\ UNCHANGED <<priceData, now, chartVars, simVars, providerVars>>

\* The price list entries. The name decides the skin data: fetchTrendingListings
\* looks it up in the catalogue by name.
ListingEntries ==
    {[market_hash_name |-> <<"AK-47", Blank, "Safari">>, skinData |-> TRUE,
      min_price |-> lo, max_price |-> hi, qty |-> q] :
        lo \in {0, 100}, hi \in {0, 300}, q \in {1, 5000, 8000}}
    \cup {[market_hash_name |-> <<"Sticker">>, skinData |-> FALSE,
           min_price |-> 100, max_price |-> 0, qty |-> 1]}

MaxListings == 2

PriceLists ==
    {Null} \cup
    {Some(l) : l \in UNION {[1..n -> ListingEntries] : n \in 0..MaxListings}}

\* What Math.random() returns, in hundredths.
Randoms == {0, 50, 75}

\* One call processTrendingListings(priceListData).
CallProcessTrendingListings(priceListData, randoms) ==
    /\ request = Null
    /\ request' = Some([fn |-> "processTrendingListings",
                        priceListData |-> priceListData])
    /\ result' = Some(processTrendingListings(priceListData, randoms))
    /\ UNCHANGED <<priceData, now, chartVars, simVars, providerVars>>

\* The display names of trending items.
DisplayNames ==
    {<<"Star", Blank, "Karambit">>,
     <<"Star", Blank, "Sport", Blank, "Glove", "s">>,
     <<"AK-47", Blank, "Safari", Blank, "Mesh">>, <<"SSG", Blank, "08">>,
     <<"Desert", Blank, "Eagle">>, <<"UMP", "-45">>, <<"Nova">>, <<"Negev">>,
     <<"Sticker">>}

MaxItems == 2

\* The lists of trending items filterByCategory is called with.
TrendingLists ==
    UNION {[1..n -> {[name |-> d] : d \in DisplayNames}] : n \in 0..MaxItems}

\* The categories filterByCategory is called with: those of the classifier,
\* "All" and the empty one.
Categories ==
    {"Knife", "Rifle", "Pistol", "SMG", "Shotgun", "Machine Gun", "Gloves",
     "Other", "All", ""}

\* One call filterByCategory(listings, category).
CallFilterByCategory(listings, category) ==
    /\ request = Null
    /\ request' = Some([fn |-> "filterByCategory", listings |-> listings,
                        category |-> category])
    /\ result' = Some(filterByCategory(listings, category))
    /\ UNCHANGED <<priceData, now, chartVars, simVars, providerVars>>

\* One call getSkinPriceHistory(marketHashName) over the stored snapshot log;
\* readThrows says whether the storage read fails.
CallGetSkinPriceHistory(stored, readThrows, marketHashName) ==
    /\ request = Null
    /\ request' = Some([fn |-> "getSkinPriceHistory", stored |-> stored,
                        readThrows |-> readThrows,
                        marketHashName |-> marketHashName])
    /\ result' = Some(getSkinPriceHistory(stored, readThrows, marketHashName))
    /\ UNCHANGED <<priceData, now, chartVars, simVars, providerVars>>

\* A call is made when none has been made yet.
NoCallYet == request = Null

NextCalls ==
    \/ NoCallYet /\ \E l \in StoredLogs(now - 1), t \in BOOLEAN, n \in ChartNames :
                        CallGetSkinPriceHistory(l, t, n)
    \/ NoCallYet /\ \E l \in TrendingLists : \E c \in Categories :
                        CallFilterByCategory(l, c)
    \/ NoCallYet /\ \E l \in PriceLists :
           \E randoms \in [1..(IF IsNull(l) THEN 0 ELSE Len(Get(l))) -> Randoms] :
               CallProcessTrendingListings(l, randoms)
    \/ NoCallYet /\ \E h \in PriceSeries : CallCalculatePriceChange(h)
    \/ NoCallYet /\ \E p \in FormatPrices : CallFormatPrice(p)
    \/ NoCallYet /\ \E n \in WeaponNames : CallDetermineCategory(n)

SpecCalls == InitCalls /\ [][NextCalls]_vars

\* ----------------------------------------- the refresh cycle's properties

\* The entries of a persisted log.
Entries(log) == IF IsNull(log) THEN {} ELSE {Get(log)[i] : i \in 1..Len(Get(log))}

\* Call c's storage write succeeds in this step.
WriteSucceeds(c) ==
    /\ refreshes[c].pc = "write"
    /\ refreshes'[c].pc # "write"
    /\ ~refreshes'[c].writeFailed

\* C11: when the write of a savePriceSnapshot call succeeds, the persisted
\* log holds no snapshot taken 30 days or more before the call's timestamp,
\* and every snapshot that was persisted when the call began and is younger
\* than that is still in it.
C11_Retention ==
    [][\A c \in 1..MaxRefreshes :
         WriteSucceeds(c) =>
             LET cutoffDate == refreshes[c].timestamp - MAX_HISTORY_DAYS * Day
             IN  /\ \A e \in Entries(storedHistory') : e.timestamp > cutoffDate
                 /\ \A e \in Entries(refreshes[c].logBefore) :
                        e.timestamp > cutoffDate => e \in Entries(storedHistory')
      ]_vars

\* The half of C11 about expired snapshots alone.
RetentionDropsExpired ==
    [][\A c \in 1..MaxRefreshes :
         WriteSucceeds(c) =>
             \A e \in Entries(storedHistory') :
                 e.timestamp > refreshes[c].timestamp - MAX_HISTORY_DAYS * Day
      ]_vars

\* Call c fetched prices, so it set the provider's state and entered
\* savePriceSnapshot.
Installed(c) == refreshes[c].installed > 0

\* Call c made the latest setPriceData call.
LatestInstall(c) ==
    /\ Installed(c)
    /\ \A d \in 1..MaxRefreshes : refreshes[d].installed <= refreshes[c].installed

\* Call c met a storage failure in savePriceSnapshot.
StorageFailed(c) == refreshes[c].readFailed \/ refreshes[c].writeFailed

\* C12: a storage failure in savePriceSnapshot lets no exception out of it,
\* the loadPrices call goes on to its end, and priceData and lastPriceUpdate
\* hold what the latest call that fetched prices installed.
C12_FailedPersistIsHarmless ==
    \A c \in 1..MaxRefreshes :
        /\ ~refreshes[c].escaped
        /\ Installed(c) =>
               /\ ~IsNull(priceData) /\ ~IsNull(lastPriceUpdate)
               /\ LatestInstall(c) =>
                      /\ priceData = refreshes[c].prices
                      /\ lastPriceUpdate = Some(refreshes[c].timestamp)
        /\ StorageFailed(c) =>
               /\ Installed(c)
               /\ refreshes[c].pc \in {"write", "cloud", "done"}
               /\ refreshes[c].pc = "write" =>
                      ENABLED (\E t \in BOOLEAN, g \in BOOLEAN :
                                  SnapshotWriteDone(c, t, g))
               /\ refreshes[c].pc = "cloud" =>
                      ENABLED (\E t \in BOOLEAN : CloudSaveDone(c, t))

\* A loadPrices call has ended after both its storage read and its storage
\* write failed, and the provider holds its price map.
C12_Witness ==
    \E c \in 1..MaxRefreshes :
        /\ refreshes[c].pc = "done"
        /\ refreshes[c].readFailed /\ refreshes[c].writeFailed
        /\ priceData = refreshes[c].prices
        /\ ~IsNull(lastPriceUpdate)

\* ------------------------------------------- the pure functions' properties

\* The function called and its arguments.
Fn == IF IsNull(request) THEN "" ELSE Get(request).fn

Args == Get(request)

Returned == Get(result)

\* The call of calculatePriceChange was given a series of two or more points.
C13_Case ==
    /\ Fn = "calculatePriceChange"
    /\ ~IsNull(Args.priceHistory)
    /\ Len(Get(Args.priceHistory)) >= 2

First == Get(Args.priceHistory)[1].price

Last == Get(Args.priceHistory)[Len(Get(Args.priceHistory))].price

\* C13: calculatePriceChange answers change 0, percentage 0 and "stable" for
\* fewer than two points; otherwise the change is last - first, the
\* percentage is (last - first) / first * 100, or 0 when first is not
\* positive, and the trend is "up" exactly above 5, "down" exactly below -5.
C13_PriceChange ==
    Fn = "calculatePriceChange" =>
        IF ~C13_Case
        THEN /\ Returned.change = 0
             /\ Returned.percentage.num = 0
             /\ Returned.trend = "stable"
        ELSE /\ Returned.change = Last - First
             /\ IF First > 0
                THEN Returned.percentage.num * (First \div 10) =
                         ((Last - First) \div 10) * 100
                             * Returned.percentage.den
                ELSE Returned.percentage.num = 0
             /\ Returned.trend = "up" <=>
                    (First > 0 /\ (Last - First) * 100 > 5 * First)
             /\ Returned.trend = "down" <=>
                    (First > 0 /\ (Last - First) * 100 < (-5) * First)
             /\ Returned.trend \in {"up", "down", "stable"}
             /\ (First = 10000 /\ Last = 12000) =>
                    /\ Returned.percentage.num = 20 * Returned.percentage.den
                    /\ Returned.trend = "up"
             /\ (First = 10000 /\ Last = 10200) => Returned.trend = "stable"

\* A series of three points that rises by exactly 5 % from first to last,
\* with a higher point between, was judged stable.
C13_Witness ==
    /\ C13_Case
    /\ Len(Get(Args.priceHistory)) = 3
    /\ First = 10000 /\ Last = 10500
    /\ Get(Args.priceHistory)[2].price = 12000
    /\ Returned.trend = "stable"

\* The lower-cased name of the determineCategory call.
LowerName == ToLowerCase(Args.weaponName)

\* C14: a weapon name that contains "knife", "bayonet" or "karambit" in any
\* letter case is classified Knife, whatever other keyword it contains.
C14_KnifeFirst ==
    ( /\ Fn = "determineCategory"
      /\ \/ Includes(LowerName, <<"knife">>)
         \/ Includes(LowerName, <<"bayonet">>)
         \/ Includes(LowerName, <<"karambit">>) )
    => Returned = "Knife"

\* "AK-47 KNIFE", a name with a rifle keyword before an upper-case knife
\* keyword, was classified Knife.
C14_Witness ==
    /\ Fn = "determineCategory"
    /\ Args.weaponName = <<"AK-47", Blank, "KNIFE">>
    /\ Returned = "Knife"

\* The categories in the order of their tests, with their keyword lists.
CategoryOrder ==
    << [category |-> "Knife", keywords |-> KnifeKeywords],
       [category |-> "Rifle", keywords |-> RifleKeywords],
       [category |-> "Pistol", keywords |-> PistolKeywords],
       [category |-> "SMG", keywords |-> SmgKeywords],
       [category |-> "Shotgun", keywords |-> ShotgunKeywords],
       [category |-> "Machine Gun", keywords |-> MachineGunKeywords],
       [category |-> "Gloves", keywords |-> GlovesKeywords] >>

\* Category i has a keyword in the lower-cased name.
Matches(i) == \E k \in CategoryOrder[i].keywords : Includes(LowerName, k)

\* C15: determineCategory answers one of the eight categories: the first
\* category, in the order Knife, Rifle, Pistol, SMG, Shotgun, Machine Gun,
\* Gloves, that has a keyword in the lower-cased name, and Other when none
\* has.
C15_FirstMatchingCategory ==
    Fn = "determineCategory" =>
        /\ Returned \in {CategoryOrder[i].category : i \in 1..7} \cup {"Other"}
        /\ \A i \in 1..7 :
               (Matches(i) /\ \A j \in 1..(i - 1) : ~Matches(j))
               => Returned = CategoryOrder[i].category
        /\ (\A i \in 1..7 : ~Matches(i)) => Returned = "Other"

\* "Nova Gloves", a name with a shotgun keyword and a gloves keyword, was
\* classified Shotgun.
C15_Witness ==
    /\ Fn = "determineCategory"
    /\ Args.weaponName = <<"Nova", Blank, "Glove">>
    /\ Matches(5) /\ Matches(7)
    /\ Returned = "Shotgun"

\* The value a formatted price shows, in thousandths of a dollar.
Shown(text) ==
    CASE text.form = "$d.dd" -> text.number * 10
      [] text.form = "$d" -> text.number * 1000
      [] text.form = "$d.dk" -> text.number * 100000
      [] OTHER -> 0

\* C16: formatPrice prints "N/A" for null, "Free" for 0, "<$0.01" below a
\* cent, two decimals below 100, whole dollars from 100 to below 1000 and
\* "$X.Yk" from 1000 on; a price below 1000 is never shown as 1000 or more;
\* 0.005 gives "<$0.01", 999.4 gives "$999" and 1500 gives "$1.5k".
C16_FormatTiers ==
    Fn = "formatPrice" =>
        IF IsNull(Args.price) THEN Returned.form = "N/A"
        ELSE LET p == Get(Args.price)
             IN  /\ p = 0 => Returned.form = "Free"
                 /\ (p # 0 /\ p < 10) => Returned.form = "<$0.01"
                 /\ (p >= 10 /\ p < 100000) => Returned.form = "$d.dd"
                 /\ (p >= 100000 /\ p < 1000000) => Returned.form = "$d"
                 /\ p >= 1000000 => Returned.form = "$d.dk"
                 /\ p < 1000000 => Shown(Returned) < 1000000
                 /\ p = 5 => Returned = Text("<$0.01", 0)
                 /\ p = 999400 => Returned = Text("$d", 999)
                 /\ p = 1500000 => Returned = Text("$d.dk", 15)

\* C17 (as stated): the list processTrendingListings returns is ordered by
\* non-increasing score, and of two items with equal |priceChange| and
\* different volumes the one with the higher volume comes first.
C17_Original ==
    Fn = "processTrendingListings" =>
        /\ \A i \in 1..(Len(Returned) - 1) :
               Score(Returned[i]) >= Score(Returned[i + 1])
        /\ \A i, j \in 1..Len(Returned) :
               (/\ Returned[i].priceChangeAbs = Returned[j].priceChangeAbs
                /\ Returned[i].volume > Returned[j].volume) => i < j

\* C17: the list processTrendingListings returns is ordered by non-increasing
\* score, and of two items with equal |priceChange| other than 0 and different
\* volumes the one with the higher volume comes first.
C17_RankedByScore ==
    Fn = "processTrendingListings" =>
        /\ \A i \in 1..(Len(Returned) - 1) :
               Score(Returned[i]) >= Score(Returned[i + 1])
        /\ \A i, j \in 1..Len(Returned) :
               (/\ Returned[i].priceChangeAbs = Returned[j].priceChangeAbs
                /\ Returned[i].priceChangeAbs # 0
                /\ Returned[i].volume > Returned[j].volume) => i < j

\* A call whose input had the lower volume first, with the same change other
\* than 0, and whose output has the higher volume first.
C17_Witness ==
    /\ Fn = "processTrendingListings"
    /\ ~IsNull(Args.priceListData)
    /\ Len(Get(Args.priceListData)) = 2
    /\ Get(Args.priceListData)[1].qty = 5000
    /\ Get(Args.priceListData)[2].qty = 8000
    /\ Len(Returned) = 2
    /\ Returned[1].volume = 8000
    /\ Returned[2].volume = 5000
    /\ Returned[1].priceChangeAbs = Returned[2].priceChangeAbs
    /\ Returned[1].priceChangeAbs # 0

\* The price list of the call, empty when it is missing.
PriceListData ==
    IF IsNull(Args.priceListData) THEN <<>> ELSE Get(Args.priceListData)

\* The average of the minimum and the maximum price of an entry, in
\* thousandths of a dollar.
AveragePrice(entry) ==
    (entry.min_price * 10
     + (IF entry.max_price # 0 THEN entry.max_price ELSE entry.min_price) * 10)
    \div 2

\* The entries of the call that have skin data and an average price above 0.
Survivors ==
    {i \in DOMAIN PriceListData :
        PriceListData[i].skinData /\ AveragePrice(PriceListData[i]) > 0}

\* C18: processTrendingListings returns exactly one item for each entry that
\* has skin data and an average price above 0, none for an entry without skin
\* data, and the empty list for an empty or missing input.
C18_OneItemPerSurvivor ==
    Fn = "processTrendingListings" =>
        /\ \E f \in [DOMAIN Returned -> Survivors] :
               /\ \A i, j \in DOMAIN Returned : f[i] = f[j] => i = j
               /\ \A s \in Survivors : \E i \in DOMAIN Returned : f[i] = s
               /\ \A i \in DOMAIN Returned :
                      /\ Returned[i].name = PriceListData[f[i]].market_hash_name
                      /\ Returned[i].volume = PriceListData[f[i]].qty
                      /\ Returned[i].currentPrice
                             = AveragePrice(PriceListData[f[i]])
        /\ \A i \in DOMAIN Returned :
               \E j \in DOMAIN PriceListData :
                   /\ PriceListData[j].skinData
                   /\ PriceListData[j].market_hash_name = Returned[i].name
        /\ PriceListData = <<>> => Returned = <<>>

\* A call with an entry without skin data and an entry with skin data whose
\* prices are both 0, which returns nothing, and one with an entry of each
\* kind that survives.
C18_Witness ==
    /\ Fn = "processTrendingListings"
    /\ Len(PriceListData) = 2
    /\ ~PriceListData[1].skinData
    /\ PriceListData[2].skinData
    /\ \/ AveragePrice(PriceListData[2]) = 0 /\ Returned = <<>>
       \/ /\ PriceListData[2].min_price = 0
          /\ AveragePrice(PriceListData[2]) > 0
          /\ Len(Returned) = 1

\* C19: filterByCategory(items, C) returns exactly the items whose display
\* name determineCategory maps to C, in their original order; for "All" or
\* the empty category it returns the list unchanged.
C19_FilterAgreesWithClassifier ==
    Fn = "filterByCategory" =>
        IF Args.category \in {"All", ""} THEN Returned = Args.listings
        ELSE Returned
                 = SelectSeq(Args.listings,
                             LAMBDA item :
                                 determineCategory(item.name) = Args.category)

\* For "All" and the empty category filterByCategory returns the list as it
\* is. (This part of C19 holds.)
AllIsUnfiltered ==
    (Fn = "filterByCategory" /\ Args.category \in {"All", ""})
        => Returned = Args.listings

\* ------------------------------------------------------- the sync's properties

\* The attempts of the running or last fetchSkinsFromAPI call.
Attempts == sync.attempts

\* An attempt that ended in the catch of the loop.
Failed(attempt) == ~IsNull(attempt.error)

\* An attempt that ended in a network error, a timeout or a non-OK status.
FailedOnTheWire(attempt) == Failed(attempt) /\ attempt.status # 200

\* The endpoints are contacted in the declared order.
InDeclaredOrder ==
    /\ Len(Attempts) <= Len(Endpoints)
    /\ \A i \in DOMAIN Attempts : Attempts[i].endpoint = Endpoints[i]
    /\ sync.pc \in {"fetch", "json"} => sync.endpoint = Len(Attempts) + 1

\* fetchSkinsFromAPI returns the filtered data of the endpoint contacted last.
ReturnsFirstSuccess ==
    ~IsNull(sync.fetchReturned) =>
        /\ Attempts # <<>>
        /\ ~Failed(Attempts[Len(Attempts)])
        /\ sync.pc \in {"save", "done"}
        /\ LET data == Get(Attempts[Len(Attempts)].data)
           IN  /\ \A i \in DOMAIN Get(sync.fetchReturned) :
                      \E j \in DOMAIN data : data[j] = Get(sync.fetchReturned)[i]
               /\ \A j \in DOMAIN data :
                      (\E i \in DOMAIN Get(sync.fetchReturned) :
                           Get(sync.fetchReturned)[i] = data[j])
                      <=> /\ data[j].category \notin ExcludedCategories
                          /\ \/ data[j].weapon # <<>>
                             \/ data[j].category \in {"Knives", "Gloves"}

\* fetchSkinsFromAPI throws only when all four endpoints failed, and throws
\* the last one's error; syncFromAPI sets the error state and throws it on.
ThrowsAfterAllFailed ==
    /\ ~IsNull(sync.fetchThrown) =>
           /\ Len(Attempts) = Len(Endpoints)
           /\ \A i \in DOMAIN Attempts : Failed(Attempts[i])
           /\ sync.fetchThrown = Attempts[Len(Endpoints)].error
           /\ sync.pc = "done"
           /\ sync.thrown = sync.fetchThrown
           /\ sync.error = Some("Could not sync data from API.")
    /\ (sync.pc = "done" /\ Len(Attempts) = Len(Endpoints)
        /\ Failed(Attempts[Len(Endpoints)])) => ~IsNull(sync.fetchThrown)

\* C20 (as stated): the endpoints are tried in the declared order, one is
\* tried only after the one before it ended in a network error, a timeout or a
\* non-OK status, the filtered data of the first that succeeds is returned,
\* and the last error is thrown, and thrown on by syncFromAPI with the error
\* state set, only when all four failed.
C20_Original ==
    /\ InDeclaredOrder
    /\ \A i \in 1..(Len(Attempts) - 1) : FailedOnTheWire(Attempts[i])
    /\ sync.pc \in {"fetch", "json"} =>
           \A i \in DOMAIN Attempts : FailedOnTheWire(Attempts[i])
    /\ ReturnsFirstSuccess
    /\ ThrowsAfterAllFailed

\* C20: the endpoints are tried in the declared order, one is tried only
\* after the one before it failed (a network error, a timeout, a non-OK
\* status, or an OK response whose body is not a JSON list), the filtered
\* data of the first that succeeds is returned, and the last error is thrown,
\* and thrown on by syncFromAPI with the error state set, only when all four
\* failed.
C20_EndpointFallback ==
    /\ InDeclaredOrder
    /\ \A i \in 1..(Len(Attempts) - 1) : Failed(Attempts[i])
    /\ sync.pc \in {"fetch", "json"} =>
           \A i \in DOMAIN Attempts : Failed(Attempts[i])
    /\ ReturnsFirstSuccess
    /\ ThrowsAfterAllFailed

\* Two failed endpoints, then the third one's data returned with an item
\* filtered out; or all four failed and the fourth one's error thrown.
C20_Witness ==
    /\ sync.pc = "done"
    /\ \/ /\ Len(Attempts) = 3
          /\ Attempts[1].status = 0
          /\ Attempts[2].status = 404
          /\ ~IsNull(sync.fetchReturned)
          /\ Len(Get(sync.fetchReturned)) = 1
          /\ Len(Get(Attempts[3].data)) = 2
          /\ sync.returned = Some(1)
       \/ /\ Len(Attempts) = 4
          /\ Attempts[1].error # Attempts[4].error
          /\ sync.thrown = Attempts[4].error

\* ------------------------------------------------- the ordering of the series

\* A series whose timestamps never go down.
Ascending(series) ==
    \A i \in 1..(Len(series) - 1) :
        series[i].timestamp <= series[i + 1].timestamp

\* C21: whatever snapshot appends have run, one after the other or
\* overlapping, the series the local tier returns for an identifier is in
\* ascending order of timestamp, and so is every series the synthetic
\* generator builds.
C21_AscendingSeries ==
    /\ \A n \in ChartNames :
           Ascending(getSkinPriceHistory(storedHistory, FALSE, n))
    /\ \A p \in CurrentPrices \ {0}, d \in 1..MaxDaysBack, r \in RandomDraws :
           Ascending(SimulatedHistory(p, d, now, r))

\* Every series the synthetic generator builds is in ascending order of
\* timestamp. (This part of C21 holds.)
SyntheticIsAscending ==
    \A p \in CurrentPrices \ {0}, d \in 1..MaxDaysBack, r \in RandomDraws :
        Ascending(SimulatedHistory(p, d, now, r))

\* ------------------------------------------------- the chart's overlapping loads

\* The load started last: the one of the most recent selection.
LatestLoad == loads[Cardinality(Started)]

\* What the chart shows once the load has run its tail at the present time.
Displayed(load) == FilterByPeriod(load.history, now, load.period)

\* C22: once every load that was started has completed, the series and the
\* price the chart shows are those of the load started last, the one for the
\* most recent selection, whatever order the loads completed in.
C22_LatestSelectionShown ==
    (Started # {} /\ Started = Done) =>
        /\ chart.priceHistory = Displayed(LatestLoad)
        /\ chart.variant = "enhanced" =>
               chart.displayPrice
                   = IF Len(Displayed(LatestLoad)) > 0
                     THEN Displayed(LatestLoad)[Len(Displayed(LatestLoad))].price
                     ELSE chart.currentPrice

\* C30: a load of the enhanced chart ends with the loading flag cleared and
\* at least one point displayed for its period, whatever the remote and the
\* local tier returned or threw.
C30_SomethingDisplayed ==
    [][\A l \in 1..MaxLoads :
          (chart.variant = "enhanced" /\ loads[l].pc # "done"
           /\ loads'[l].pc = "done")
              => (~chart'.loading /\ Len(chart'.priceHistory) > 0)]_vars

\* A load ends with the loading flag cleared. (This part of C30 holds.)
LoadingCleared ==
    [][\A l \in 1..MaxLoads :
          (loads[l].pc # "done" /\ loads'[l].pc = "done") => ~chart'.loading]_vars

\* ------------------------------------------- the resolver's fallback, again

\* A served call for a special item, a name that holds the star.
SpecialCall == Served /\ Includes(Req.skinName, <<"Star">>)

\* The answer of the call is tagged approximate.
Approximate == ~IsNull(result) /\ Get(result).isApproximate

\* C23: a call for a special item without a wear returns an exact quote, and
\* never an approximate one, whenever the canonical identifier with one of
\* the five wears is a key of the price map.
C23_ExactBeforeFallback ==
    (/\ SpecialCall /\ Req.wear = <<>>
     /\ \E i \in 1..Len(StandardWears) :
            CanonicalId(Req, StandardWears[i]) \in Keys)
        => ~IsNull(result) /\ ~Get(result).isApproximate

\* C24: an approximate answer carries a key of the price map that starts with
\* "<base> | <pattern>", or with <base> and holds no "|" when the name has no
\* pattern; that holds "(wear)" when a wear was given; and that holds the
\* StatTrak marker exactly when StatTrak was asked for, except that a StatTrak
\* request may be answered from a key without the marker.
C24_ApproximateKeyMatches ==
    (Called /\ Approximate) =>
        LET key == Get(result).marketHashName
        IN  /\ key \in Keys
            /\ \/ SearchHit(key, Req, Req.stattrak)
               \/ Req.stattrak /\ SearchHit(key, Req, FALSE)

\* A request with a wear answered from a phase variant with that wear, and a
\* StatTrak request answered from a key without the marker.
C24_Witness ==
    /\ Called /\ Approximate
    /\ Req.wear # <<>>
    /\ Includes(Get(result).marketHashName, <<"LP">> \o Req.wear \o <<"RP">>)
    /\ Get(result).marketHashName # CanonicalId(Req, Req.wear)
    /\ Req.stattrak
    /\ ~Includes(Get(result).marketHashName, <<"StatTrak">>)

\* C25: for a name without the star the call returns null or an exact quote,
\* and a StatTrak request none of whose StatTrak identifiers is a key returns
\* null even when the identifier without the marker is a key.
C25_OrdinaryNeverApproximate ==
    (Served /\ ~Includes(Req.skinName, <<"Star">>)) =>
        /\ ~Approximate
        /\ (Req.stattrak /\ CanonicalIds(Req) \cap Keys = {}) => result = Null

\* A StatTrak request for an ordinary skin with a wear, whose identifier
\* without the marker is a key: the answer is null.
C25_Witness ==
    /\ Served /\ ~Includes(Req.skinName, <<"Star">>)
    /\ Req.stattrak /\ Req.wear # <<>>
    /\ CanonicalIds(Req) \cap Keys = {}
    /\ Req.skinName \o <<"Sp", "LP">> \o Req.wear \o <<"RP">> \in Keys
    /\ result = Null

\* --------------------------------------------------- the local tier's series

\* The snapshots of the log handed to the call, none when nothing is stored.
Log == IF IsNull(Args.stored) THEN <<>> ELSE Get(Args.stored)

\* The price a snapshot lists for the identifier of the call, 0 when it does
\* not list it.
ListedPrice(snapshot) ==
    LET at == {i \in DOMAIN snapshot.prices :
                  snapshot.prices[i].key = Args.marketHashName}
    IN  IF at = {} THEN 0
        ELSE snapshot.prices[CHOOSE i \in at : TRUE].info.price

\* The snapshots that list the identifier at a price above 0, in log order.
ListingSnapshots ==
    SelectSeq(Log, LAMBDA snapshot : ListedPrice(snapshot) > 0)

\* C26: getSkinPriceHistory returns, in log order, one point for each stored
\* snapshot that lists the identifier at a price above 0, with that
\* snapshot's timestamp and price, and no other point; when the storage read
\* fails it returns the empty series.
C26_OnePointPerListingSnapshot ==
    Fn = "getSkinPriceHistory" =>
        IF Args.readThrows THEN Returned = <<>>
        ELSE /\ Len(Returned) = Len(ListingSnapshots)
             /\ \A k \in DOMAIN Returned :
                    /\ Returned[k].timestamp = ListingSnapshots[k].timestamp
                    /\ Returned[k].price = ListedPrice(ListingSnapshots[k])
                    /\ Returned[k].price > 0

\* A log of three snapshots of which one lists the identifier at a price
\* above 0: one point; and a failed read over a log with points.
C26_Witness ==
    /\ Fn = "getSkinPriceHistory"
    /\ Len(Log) = 3
    /\ \/ ~Args.readThrows /\ Len(Returned) = 1
                           /\ Returned[1].timestamp = Log[3].timestamp
       \/ Args.readThrows /\ Len(ListingSnapshots) = 3 /\ Returned = <<>>

\* ------------------------------------------- the enriched history's properties

\* The getEnrichedPriceHistory calls that have returned.
EnrichedDone ==
    {c \in 1..MaxSimCalls : simCalls[c].pc = "done" /\ ~IsNull(simCalls[c].real)}

\* The points of a series.
Points(series) == {series[i] : i \in DOMAIN series}

SevenAreEnough ==
    \E c \in EnrichedDone :
        Len(Get(simCalls[c].real)) = 7 /\ simCalls[c].result = Get(simCalls[c].real)

\* ------------------------------------------------ the appends to the log

\* Call c's savePriceSnapshot has returned after a successful write.
Appended(c) ==
    /\ refreshes[c].pc \in {"cloud", "done"}
    /\ ~IsNull(refreshes[c].prices)
    /\ ~refreshes[c].writeFailed

\* The snapshot call c pushed.
SnapshotOf(c) == Snapshot(refreshes[c].timestamp, Get(refreshes[c].prices))

\* No storage read of the log has failed so far.
NoReadFailed == \A c \in 1..MaxRefreshes : ~refreshes[c].readFailed

\* C28: whatever the interleaving of the loadPrices calls, while no read of
\* the log fails, the snapshot of every savePriceSnapshot call that returned
\* after a successful write, and that is less than 30 days old, is in the
\* persisted log.
C28_NoAppendLost ==
    NoReadFailed =>
        \A c \in 1..MaxRefreshes :
            (Appended(c)
               /\ refreshes[c].timestamp > now - MAX_HISTORY_DAYS * Day)
                => SnapshotOf(c) \in Entries(storedHistory)

\* Appends that do not overlap lose nothing: while at most one call is
\* between its read and its write, the last append is in the log.
LoneAppendKept ==
    [][\A c \in 1..MaxRefreshes :
         (WriteSucceeds(c)
            /\ \A d \in 1..MaxRefreshes \ {c} :
                   refreshes[d].pc \notin {"read", "write"})
             => SnapshotOf(c) \in Entries(storedHistory')
      ]_vars

\* C29: when the read of the log failed in a savePriceSnapshot call and the
\* persisted log is still the one of the call's start, the call's write
\* leaves the log as it was, or as its entries less than 30 days old followed
\* by the new snapshot.
C29_FailedReadKeepsLog ==
    [][\A c \in 1..MaxRefreshes :
         (/\ refreshes[c].pc = "write"
          /\ refreshes'[c].pc # "write"
          /\ refreshes[c].readFailed
          /\ refreshes[c].logBefore = storedHistory)
             => \/ storedHistory' = storedHistory
                \/ storedHistory' =
                       Some(Retained(getPriceHistory(storedHistory, FALSE),
                                     refreshes[c].timestamp,
                                     Get(refreshes[c].prices)))
      ]_vars

\* The same with a read that succeeded: the entries less than 30 days old
\* are kept and the new snapshot follows them.
GoodReadKeepsLog ==
    [][\A c \in 1..MaxRefreshes :
         (/\ WriteSucceeds(c)
          /\ ~refreshes[c].readFailed
          /\ refreshes[c].logBefore = storedHistory)
             => storedHistory' =
                    Some(Retained(getPriceHistory(storedHistory, FALSE),
                                  refreshes[c].timestamp,
                                  Get(refreshes[c].prices)))
      ]_vars
=============================================================================
